---- MODULE Spec2Model ----
(***************************************************************************)
(* A model of the numerical core of NewAnalyzer:                           *)
(*   backend/services/analysis_service.py   (Correlation Consolidator)     *)
(*   backend/services/portfolio_service.py  (Feasible-Set Sampler, ...)    *)
(*   backend/services/currency_service.py   (files of the Moment Estimator)*)
(*                                                                         *)
(* Floating-point numbers are modelled by exact rationals <<n, d>> with    *)
(* d > 0 and gcd(n, d) = 1; the pair <<0, 0>> stands for NaN.              *)
(***************************************************************************)
EXTENDS Integers, Sequences, FiniteSets, TLC

(***************************************************************************)
(* Bounds of the model.                                                    *)
(***************************************************************************)
\* largest number of assets (columns of the aligned price matrix)
NumAssets == 4
\* number of price rows (dates) of the aligned price matrix
NumRows == 4

\* the tickers, in column order (file names without ".csv")
TickerNames == <<"A", "B", "C", "D", "E", "F">>

\* closing-price histories an asset may have; the first NumRows prices are used
PriceHistories ==
    { <<1, 1, 2, 1, 2>>,
      <<2, 2, 1, 2, 1>>,
      <<1, 1, 2, 2, 4>>,
      <<2, 2, 2, 2, 2>> }

\* correlation thresholds a caller may pass, as rationals
Thresholds == { <<9, 10>>, <<1, 1>> }

\* values of consolidation_method a caller may pass ("max" is not a known one)
Aggregations == { "mean", "median", "first", "max" }

\* values of method a caller may pass
ReturnMethods == { "simple", "log" }

(***************************************************************************)
(* Exact arithmetic standing for float arithmetic.                         *)
(***************************************************************************)
Abs(x) == IF x < 0 THEN -x ELSE x

RECURSIVE Gcd(_, _)
Gcd(a, b) == IF b = 0 THEN a ELSE Gcd(b, a % b)

NaN == <<0, 0>>

IsNaN(r) == r[2] = 0

\* the rational n/d in lowest terms (d # 0)
Rat(n, d) ==
    LET g == Gcd(Abs(n), Abs(d))
        s == IF d < 0 THEN -1 ELSE 1
    IN  <<(s * n) \div g, (s * d) \div g>>

RInt(n) == <<n, 1>>

RAdd(a, b) == IF IsNaN(a) \/ IsNaN(b) THEN NaN
              ELSE Rat(a[1] * b[2] + b[1] * a[2], a[2] * b[2])

RSub(a, b) == IF IsNaN(a) \/ IsNaN(b) THEN NaN
              ELSE Rat(a[1] * b[2] - b[1] * a[2], a[2] * b[2])

RMul(a, b) == IF IsNaN(a) \/ IsNaN(b) THEN NaN
              ELSE Rat(a[1] * b[1], a[2] * b[2])

\* float division: x/0 is not a number the model's prices ever produce
RDiv(a, b) == IF IsNaN(a) \/ IsNaN(b) \/ b[1] = 0 THEN NaN
              ELSE Rat(a[1] * b[2], a[2] * b[1])

\* a < b on floats: any comparison with NaN is false
RLess(a, b) == /\ ~IsNaN(a)
               /\ ~IsNaN(b)
               /\ a[1] * b[2] < b[1] * a[2]

RECURSIVE RSum(_)
RSum(s) == IF s = <<>> THEN RInt(0) ELSE RAdd(Head(s), RSum(Tail(s)))

\* the k with v = 2^k, for v a power of two (every price ratio of the model)
RECURSIVE Log2(_)
Log2(v) == IF v = <<1, 1>> THEN 0
           ELSE IF v[2] = 1 THEN 1 + Log2(<<v[1] \div 2, 1>>)
           ELSE Log2(<<1, v[2] \div 2>>) - 1

(***************************************************************************)
(* Data frames: a sequence of columns [name, vals], all of one length.     *)
(***************************************************************************)
Columns(df) == [k \in 1..Len(df) |-> df[k].name]

ColumnSet(df) == { df[k].name : k \in 1..Len(df) }

\* df[name]
Col(df, name) == (CHOOSE k \in 1..Len(df) : df[k].name = name)

ColVals(df, name) == df[Col(df, name)].vals

\* df.drop(columns=[name])
DropColumn(df, name) == SelectSeq(df, LAMBDA c : c.name # name)

\* df[name] = vals : an existing column keeps its key and its position
SetColumn(df, name, vals) ==
    IF name \in ColumnSet(df)
    THEN [k \in 1..Len(df) |->
             IF df[k].name = name THEN [name |-> name, vals |-> vals] ELSE df[k]]
    ELSE Append(df, [name |-> name, vals |-> vals])

NRows(df) == IF df = <<>> THEN 0 ELSE Len(df[1].vals)

(***************************************************************************)
(* Returns.  A return value is [ln, q]: the number q when ln is FALSE, the *)
(* natural logarithm of q when ln is TRUE (ln is injective, so two log     *)
(* returns are equal exactly when their q are equal).                      *)
(***************************************************************************)
Lin(q) == [ln |-> FALSE, q |-> q]

Ln(q) == IF IsNaN(q) THEN Lin(NaN) ELSE [ln |-> TRUE, q |-> q]

\* prices.shift(1): the previous row, NaN in the first row
Shift(vals) == [t \in 1..Len(vals) |-> IF t = 1 THEN NaN ELSE vals[t - 1]]

\* prices.pct_change()
PctChange(vals) ==
    [t \in 1..Len(vals) |-> Lin(RSub(RDiv(vals[t], Shift(vals)[t]), RInt(1)))]

\* np.log(prices / prices.shift(1))
LogChange(vals) ==
    [t \in 1..Len(vals) |-> Ln(RDiv(vals[t], Shift(vals)[t]))]

\* the rows of df kept by dropna(how="all"): those with some value not NaN
RowsNotAllNaN(df) ==
    { t \in 1..NRows(df) : \E k \in 1..Len(df) : ~IsNaN(df[k].vals[t].q) }

\* the subsequence of vals at the rows of keep, in order
RECURSIVE KeepRows(_, _, _)
KeepRows(vals, keep, t) ==
    IF t > Len(vals) THEN <<>>
    ELSE (IF t \in keep THEN <<vals[t]>> ELSE <<>>) \o KeepRows(vals, keep, t + 1)

compute_returns(df, how) ==
    LET raw == [k \in 1..Len(df) |->
                  [name |-> df[k].name,
                   vals |-> IF how = "log" THEN LogChange(df[k].vals)
                                           ELSE PctChange(df[k].vals)]]
        keep == RowsNotAllNaN(raw)
    IN  [k \in 1..Len(raw) |->
            [name |-> raw[k].name, vals |-> KeepRows(raw[k].vals, keep, 1)]]

(***************************************************************************)
(* Pearson correlation (DataFrame.corr()).  An entry is [nan, sgn, sq]:    *)
(* NaN, or the number with sign sgn and square sq.  The correlation does   *)
(* not change when a column is scaled by a positive constant, so log       *)
(* returns are taken in units of ln 2.                                     *)
(***************************************************************************)
Num(v) == IF v.ln THEN RInt(Log2(v.q)) ELSE v.q

CorrNaN == [nan |-> TRUE, sgn |-> 0, sq |-> NaN]

Sign(n) == IF n > 0 THEN 1 ELSE IF n < 0 THEN -1 ELSE 0

\* the numbers of a column of returns
RECURSIVE NumSeq(_)
NumSeq(vs) == IF vs = <<>> THEN <<>> ELSE <<Num(Head(vs))>> \o NumSeq(Tail(vs))

\* the least common denominator of a sequence of rationals
RECURSIVE CommonDen(_)
CommonDen(qs) ==
    IF qs = <<>> THEN 1
    ELSE LET rest == CommonDen(Tail(qs))
         IN  (Head(qs)[2] * rest) \div Gcd(Head(qs)[2], rest)

\* the sequence qs times the positive integer den, as integers
RECURSIVE Scaled(_, _)
Scaled(qs, den) ==
    IF qs = <<>> THEN <<>>
    ELSE <<(Head(qs)[1] * den) \div Head(qs)[2]>> \o Scaled(Tail(qs), den)

RECURSIVE Sum(_)
Sum(x) == IF x = <<>> THEN 0 ELSE Head(x) + Sum(Tail(x))

RECURSIVE Dot(_, _)
Dot(x, y) == IF x = <<>> THEN 0 ELSE Head(x) * Head(y) + Dot(Tail(x), Tail(y))

\* the correlation of two columns over the rows where both have a value
PearsonEntry(xs, ys) ==
    LET both == { t \in 1..Len(xs) : ~IsNaN(xs[t].q) /\ ~IsNaN(ys[t].q) }
        qx   == NumSeq(KeepRows(xs, both, 1))
        qy   == NumSeq(KeepRows(ys, both, 1))
        x    == Scaled(qx, CommonDen(qx))
        y    == Scaled(qy, CommonDen(qy))
        n    == Len(x)
        sxy  == n * Dot(x, y) - Sum(x) * Sum(y)
        sxx  == n * Dot(x, x) - Sum(x) * Sum(x)
        syy  == n * Dot(y, y) - Sum(y) * Sum(y)
    IN  IF n < 1 \/ sxx = 0 \/ syy = 0
        THEN CorrNaN
        ELSE [nan |-> FALSE, sgn |-> Sign(sxy), sq |-> Rat(sxy * sxy, sxx * syy)]

\* rets.corr(): a square frame keyed by column name on both axes
Pearson(df) ==
    [cols |-> Columns(df),
     val  |-> [a \in ColumnSet(df), b \in ColumnSet(df) |->
                  PearsonEntry(ColVals(df, a), ColVals(df, b))]]

\* a variant of AbsLess with the comparison turned round
AbsLess_turned(c, t) ==
    /\ ~c.nan
    /\ t[1] > 0
    /\ RLess(RMul(t, t), c.sq)

\* abs(c) < threshold on floats (false when c is NaN)
AbsLess(c, t) ==
    /\ ~c.nan
    /\ t[1] > 0
    /\ RLess(c.sq, RMul(t, t))

(***************************************************************************)
(* State of one request to AnalysisService.consolidate_correlated_assets,  *)
(* followed by a second grouping of its consolidated correlation.          *)
(***************************************************************************)
VARIABLES
    pc,                   \* position in the code
    prices,               \* the aligned price matrix (load_all_close_series)
    method,               \* "simple" | "log"
    threshold,            \* correlation_threshold
    consolidation_method, \* the aggregation
    rets,                 \* compute_returns(prices, method)
    corr,                 \* rets.corr()
    tickers,              \* _find_correlated_groups: list(corr.columns)
    visited,              \* _find_correlated_groups: assets already assigned
    groups,               \* _find_correlated_groups: groups so far; then its result
    group,                \* _find_correlated_groups: the group being built
    i,                    \* _find_correlated_groups: outer index (1-based)
    j,                    \* _find_correlated_groups: inner index (1-based)
    consolidated_prices,
    consolidated_rets,
    gi,                   \* consolidate_correlated_assets: index of the group being replaced
    consolidated_corr,    \* consolidated_rets.corr()
    result_groups,        \* the entry "groups" of the returned dictionary
    regrouped             \* the groups a second grouping finds in consolidated_corr

(***************************************************************************)
(* State of one call of PortfolioService.sample_feasible_portfolios.       *)
(***************************************************************************)
VARIABLES
    s_pc,                 \* position in the code
    mu,                   \* the mean vector
    Sigma,                \* the covariance matrix
    allow_short,
    num_samples,
    max_leverage,
    rng,                  \* state of the generator np.random.default_rng(42)
    records,              \* the (risk, return) pairs so far
    weights,              \* the weight vectors so far
    count                 \* accepted draws (short-allowed mode)

sampler == <<s_pc, mu, Sigma, allow_short, num_samples, max_leverage, rng,
             records, weights, count>>

consolidator == <<pc, prices, method, threshold, consolidation_method, rets, corr,
                  tickers, visited, groups, group, i, j,
                  consolidated_prices, consolidated_rets, gi, consolidated_corr,
                  result_groups, regrouped>>

(***************************************************************************)
(* State of two concurrent calls of sample_feasible_portfolios on the one  *)
(* service object svc of portfolio_api.py (same arguments in both calls).  *)
(***************************************************************************)
VARIABLES
    stream,               \* what a generator seeded with 42 yields, by position
    gen,                  \* the position of every generator object
    calls                 \* the locals of every call: pc, records, weights, count

concurrent == <<stream, gen, calls>>

(***************************************************************************)
(* State of one call of PortfolioService.efficient_frontier_analytic.      *)
(***************************************************************************)
VARIABLES
    f_pc,                 \* position in the code
    return_targets,
    coeffs,               \* A, B, C, D, a, b, h
    risks,
    weights_list

solver == <<f_pc, return_targets, coeffs, risks, weights_list>>

(***************************************************************************)
(* State of one call of PortfolioService._select_composition_weights.      *)
(***************************************************************************)
VARIABLES
    sel_pc,               \* position in the code
    mode,
    r_f,
    composition_target_return,
    ef_weights,
    ef_targets,
    ef_risks,
    sampled,
    idx,                  \* the index selected, 0-based as in the code
    w_sel,                \* the weight vector returned
    earlier               \* what an earlier call with this frontier returned

selector == <<sel_pc, mode, r_f, composition_target_return, ef_weights, ef_targets,
              ef_risks, sampled, idx, w_sel, earlier>>

(***************************************************************************)
(* State of one call of PortfolioService.estimate_mu_sigma (its prices,    *)
(* method, threshold, consolidation_method, rets, mu and Sigma are the     *)
(* variables of those names above), and the data directories it reads.     *)
(***************************************************************************)
VARIABLES
    e_pc,                 \* position in the code
    consolidate_correlated,
    annualize,
    currency,
    files                 \* the files under data/ and data/data_analysis/

estimator == <<e_pc, consolidate_correlated, annualize, currency, files>>

(***************************************************************************)
(* A figure request: which of get_optimization_figure,                     *)
(* get_efficient_frontier_figure and get_feasible_set_figure it calls, and *)
(* the arguments of the first two.                                         *)
(***************************************************************************)
VARIABLES
    endpoint,             \* "optimization" | "efficient_frontier" | "feasible_set"
    optimization_method,
    target_return

figure == <<endpoint, optimization_method, target_return>>

service == <<estimator, figure>>

\* what a step of the consolidator, or of the sampler, leaves alone
outside_consolidator == <<sampler, concurrent, solver, selector, service>>
outside_sampler == <<consolidator, concurrent, solver, selector, service>>

vars == <<consolidator, sampler, concurrent, solver, selector, service>>

\* An Optional argument: Python's None, or a value v
None == <<>>
Some(v) == <<v>>
Value(o) == o[1]

\* no call of estimate_mu_sigma is in progress
EstimatorOff ==
    /\ e_pc = "off"
    /\ consolidate_correlated = FALSE
    /\ annualize = FALSE
    /\ currency = "USD"
    /\ files = <<>>

\* no figure request is in progress
FigureOff ==
    /\ endpoint = "none"
    /\ optimization_method = "sharpe"
    /\ target_return = None

ServiceOff == EstimatorOff /\ FigureOff

\* no concurrent calls are in progress
ConcurrentOff ==
    /\ stream = <<>>
    /\ gen = <<>>
    /\ calls = <<>>

\* no call of efficient_frontier_analytic is in progress
SolverOff ==
    /\ f_pc = "off"
    /\ return_targets = <<>>
    /\ coeffs = <<>>
    /\ risks = <<>>
    /\ weights_list = <<>>

\* no call of _select_composition_weights is in progress
SelectorOff ==
    /\ sel_pc = "off"
    /\ mode = None
    /\ r_f = None
    /\ composition_target_return = None
    /\ ef_weights = None
    /\ ef_targets = None
    /\ ef_risks = None
    /\ sampled = None
    /\ idx = None
    /\ w_sel = <<>>
    /\ earlier = None

\* no call of sample_feasible_portfolios is in progress
SamplerOff ==
    /\ s_pc = "off"
    /\ mu = <<>>
    /\ Sigma = <<>>
    /\ allow_short = FALSE
    /\ num_samples = 0
    /\ max_leverage = RInt(0)
    /\ rng = 0
    /\ records = <<>>
    /\ weights = <<>>
    /\ count = 0

NoCorr == [cols |-> <<>>, val |-> <<>>]

\* the aligned price matrices of n assets: one history per ticker, NumRows rows
PriceMatricesOf(n) ==
    { [k \in 1..n |->
          [name |-> TickerNames[k],
           vals |-> [t \in 1..NumRows |-> RInt(h[k][t])]]] :
      h \in [1..n -> PriceHistories] }

\* load_all_close_series: at least one asset, at most NumAssets
PriceMatrices == UNION { PriceMatricesOf(n) : n \in 1..NumAssets }

Init ==
    /\ ServiceOff
    /\ pc = "start"
    /\ prices \in PriceMatrices
    /\ method \in ReturnMethods
    /\ threshold \in Thresholds
    /\ consolidation_method \in Aggregations
    /\ rets = <<>>
    /\ corr = NoCorr
    /\ tickers = <<>>
    /\ visited = {}
    /\ groups = <<>>
    /\ group = <<>>
    /\ i = 1
    /\ j = 1
    /\ consolidated_prices = <<>>
    /\ consolidated_rets = <<>>
    /\ gi = 1
    /\ consolidated_corr = NoCorr
    /\ result_groups = <<>>
    /\ regrouped = <<>>
    /\ SamplerOff
    /\ ConcurrentOff
    /\ SolverOff
    /\ SelectorOff

inputs == <<prices, method, threshold, consolidation_method>>

\* the argument corr of the running _find_correlated_groups
corr_arg == IF pc \in {"outer2", "inner2"} THEN consolidated_corr ELSE corr

\* entry of _find_correlated_groups(c, threshold)
EnterFind(c) ==
    /\ tickers' = c.cols
    /\ visited' = {}
    /\ groups' = <<>>
    /\ group' = <<>>
    /\ i' = 1
    /\ j' = 1

finder == <<tickers, visited, groups, group, i, j>>
caller == <<inputs, outside_consolidator, rets, corr, consolidated_prices, consolidated_rets, gi,
            consolidated_corr, result_groups, regrouped>>

\* consolidate_correlated_assets: rets = self.compute_returns(prices, method=method)
ComputeReturns ==
    /\ pc = "start"
    /\ rets' = compute_returns(prices, method)
    /\ pc' = "returns"
    /\ UNCHANGED <<inputs, outside_consolidator, corr, finder, consolidated_prices, consolidated_rets, gi,
                   consolidated_corr, result_groups, regrouped>>

\* corr = rets.corr(); groups = self._find_correlated_groups(corr, threshold)
ComputeCorrelation ==
    /\ pc = "returns"
    /\ corr' = Pearson(rets)
    /\ EnterFind(corr')
    /\ pc' = "outer"
    /\ UNCHANGED <<inputs, outside_consolidator, rets, consolidated_prices, consolidated_rets, gi,
                   consolidated_corr, result_groups, regrouped>>

\* for i in range(n): if tickers[i] in visited: continue
SkipVisited ==
    /\ pc \in {"outer", "outer2"}
    /\ i <= Len(tickers)
    /\ tickers[i] \in visited
    /\ i' = i + 1
    /\ UNCHANGED <<pc, tickers, visited, groups, group, j, caller>>

\* a variant of OpenGroup whose inner loop starts one asset later
OpenGroup_from_the_second ==
    /\ pc \in {"outer", "outer2"}
    /\ i <= Len(tickers)
    /\ tickers[i] \notin visited
    /\ group' = <<tickers[i]>>
    /\ visited' = visited \cup {tickers[i]}
    /\ j' = i + 2
    /\ pc' = IF pc = "outer" THEN "inner" ELSE "inner2"
    /\ UNCHANGED <<tickers, groups, i, caller>>

\* group = [tickers[i]]; visited.add(tickers[i])
OpenGroup ==
    /\ pc \in {"outer", "outer2"}
    /\ i <= Len(tickers)
    /\ tickers[i] \notin visited
    /\ group' = <<tickers[i]>>
    /\ visited' = visited \cup {tickers[i]}
    /\ j' = i + 1
    /\ pc' = IF pc = "outer" THEN "inner" ELSE "inner2"
    /\ UNCHANGED <<tickers, groups, i, caller>>

\* for j in range(i + 1, n): if tickers[j] in visited: continue
SkipAssigned ==
    /\ pc \in {"inner", "inner2"}
    /\ j <= Len(tickers)
    /\ tickers[j] \in visited
    /\ j' = j + 1
    /\ UNCHANGED <<pc, tickers, visited, groups, group, i, caller>>

\* a variant of is_correlated that tests the first member of the group only
is_correlated_first_member(c, grp, t, thr) ==
    ~AbsLess(c.val[grp[1], t], thr)

\* the loop over the members of group, with its break
is_correlated(c, grp, t, thr) ==
    \A m \in 1..Len(grp) : ~AbsLess(c.val[grp[m], t], thr)

\* a variant of Examine that does not record the joined asset in visited
Examine_not_marked ==
    /\ pc \in {"inner", "inner2"}
    /\ j <= Len(tickers)
    /\ tickers[j] \notin visited
    /\ IF is_correlated(corr_arg, group, tickers[j], threshold)
       THEN group' = Append(group, tickers[j])
       ELSE UNCHANGED group
    /\ j' = j + 1
    /\ UNCHANGED <<pc, tickers, visited, groups, i, caller>>

\* the test of tickers[j] against every member of group, and the join
Examine ==
    /\ pc \in {"inner", "inner2"}
    /\ j <= Len(tickers)
    /\ tickers[j] \notin visited
    /\ IF is_correlated(corr_arg, group, tickers[j], threshold)
       THEN /\ group' = Append(group, tickers[j])
            /\ visited' = visited \cup {tickers[j]}
       ELSE UNCHANGED <<group, visited>>
    /\ j' = j + 1
    /\ UNCHANGED <<pc, tickers, groups, i, caller>>

\* if len(group) > 1: groups.append(group)
CloseGroup ==
    /\ pc \in {"inner", "inner2"}
    /\ j > Len(tickers)
    /\ groups' = IF Len(group) > 1 THEN Append(groups, group) ELSE groups
    /\ i' = i + 1
    /\ pc' = IF pc = "inner" THEN "outer" ELSE "outer2"
    /\ UNCHANGED <<tickers, visited, group, j, caller>>

(***************************************************************************)
(* _create_representative_asset                                            *)
(***************************************************************************)
KnownAggregations == {"mean", "median", "first"}

\* "+".join(group)
RECURSIVE JoinPlus(_)
JoinPlus(grp) ==
    IF Len(grp) = 1 THEN grp[1] ELSE grp[1] \o "+" \o JoinPlus(Tail(grp))

\* the name given to the representative series
RepresentativeName(grp) ==
    IF Len(grp) <= 3
    THEN JoinPlus(grp)
    ELSE grp[1] \o "+" \o ToString(Len(grp) - 1) \o "others"

\* the row t of prices[group], in the order of group
GroupRow(df, grp, t) == [m \in 1..Len(grp) |-> ColVals(df, grp[m])[t]]

RowMean(row) == RDiv(RSum(row), RInt(Len(row)))

RowMedian(row) ==
    LET sorted == SortSeq(row, LAMBDA a, b : RLess(a, b))
        n      == Len(row)
    IN  IF n % 2 = 1
        THEN sorted[(n + 1) \div 2]
        ELSE RDiv(RAdd(sorted[n \div 2], sorted[n \div 2 + 1]), RInt(2))

\* the representative series of a group (how is a known aggregation)
create_representative_asset(df, grp, how) ==
    [name |-> RepresentativeName(grp),
     vals |-> [t \in 1..NRows(df) |->
                 CASE how = "mean"   -> RowMean(GroupRow(df, grp, t))
                   [] how = "median" -> RowMedian(GroupRow(df, grp, t))
                   [] how = "first"  -> GroupRow(df, grp, t)[1]]]

(***************************************************************************)
(* consolidate_correlated_assets, after the grouping                       *)
(***************************************************************************)
\* _find_correlated_groups returns (i has run through range(n))
ReturnGroups ==
    /\ pc = "outer"
    /\ i > Len(tickers)
    /\ consolidated_prices' = prices
    /\ consolidated_rets' = rets
    /\ gi' = 1
    /\ pc' = "replace"
    /\ UNCHANGED <<inputs, outside_consolidator, rets, corr, finder, consolidated_corr, result_groups, regrouped>>

\* a variant of DropMembers that leaves the return frame as it is
DropMembers_prices_only(cp, cr, assets) ==
    <<SelectSeq(cp, LAMBDA c : \A k \in 1..Len(assets) : c.name # assets[k]), cr>>

\* for asset in group[1:]: drop it from both frames if the price frame has it
RECURSIVE DropMembers(_, _, _)
DropMembers(cp, cr, assets) ==
    IF assets = <<>> THEN <<cp, cr>>
    ELSE IF Head(assets) \in ColumnSet(cp)
         THEN DropMembers(DropColumn(cp, Head(assets)),
                          DropColumn(cr, Head(assets)), Tail(assets))
         ELSE DropMembers(cp, cr, Tail(assets))

\* the price frame after the representative has been stored for a group
StoreRepresentative(cp, grp, representative) ==
    SetColumn(cp, grp[1], representative.vals)

\* one pass of "for group in groups"
ReplaceGroup ==
    /\ pc = "replace"
    /\ gi <= Len(groups)
    /\ consolidation_method \in KnownAggregations
    /\ LET representative ==
               create_representative_asset(prices, groups[gi], consolidation_method)
           stored  == StoreRepresentative(consolidated_prices, groups[gi], representative)
           dropped == DropMembers(stored, consolidated_rets, Tail(groups[gi]))
       IN  /\ consolidated_prices' = dropped[1]
           /\ consolidated_rets' = dropped[2]
    /\ gi' = gi + 1
    /\ UNCHANGED <<pc, inputs, outside_consolidator, rets, corr, finder, consolidated_corr, result_groups, regrouped>>

\* _create_representative_asset raises ValueError, which nothing catches
RaiseUnknownMethod ==
    /\ pc = "replace"
    /\ gi <= Len(groups)
    /\ consolidation_method \notin KnownAggregations
    /\ pc' = "error"
    /\ UNCHANGED <<inputs, outside_consolidator, rets, corr, finder, consolidated_prices,
                   consolidated_rets, gi, consolidated_corr, result_groups, regrouped>>

\* a variant of ReturnResult that correlates the consolidated prices
ReturnResult_price_correlation ==
    /\ pc = "replace"
    /\ gi > Len(groups)
    /\ consolidated_corr' =
           Pearson([k \in 1..Len(consolidated_prices) |->
                      [name |-> consolidated_prices[k].name,
                       vals |-> [t \in 1..NRows(consolidated_prices) |->
                                   Lin(consolidated_prices[k].vals[t])]]])
    /\ result_groups' = groups
    /\ pc' = "done"
    /\ UNCHANGED <<inputs, outside_consolidator, rets, corr, finder, consolidated_prices,
                   consolidated_rets, gi, regrouped>>

\* consolidated_corr = consolidated_rets.corr(); return {...}
ReturnResult ==
    /\ pc = "replace"
    /\ gi > Len(groups)
    /\ consolidated_corr' = Pearson(consolidated_rets)
    /\ result_groups' = groups
    /\ pc' = "done"
    /\ UNCHANGED <<inputs, outside_consolidator, rets, corr, finder, consolidated_prices,
                   consolidated_rets, gi, regrouped>>

\* a caller groups the consolidated correlation again, with the same threshold
Regroup ==
    /\ pc = "done"
    /\ EnterFind(consolidated_corr)
    /\ pc' = "outer2"
    /\ UNCHANGED caller

\* the second grouping returns
ReturnRegrouped ==
    /\ pc = "outer2"
    /\ i > Len(tickers)
    /\ regrouped' = groups
    /\ pc' = "done2"
    /\ UNCHANGED <<inputs, outside_consolidator, rets, corr, finder, consolidated_prices,
                   consolidated_rets, gi, consolidated_corr, result_groups>>

Next ==
    \/ ComputeReturns
    \/ ComputeCorrelation
    \/ SkipVisited
    \/ OpenGroup
    \/ SkipAssigned
    \/ Examine
    \/ CloseGroup
    \/ ReturnGroups
    \/ ReplaceGroup
    \/ RaiseUnknownMethod
    \/ ReturnResult
    \/ Regroup
    \/ ReturnRegrouped

Spec == Init /\ [][Next]_vars

(***************************************************************************)
(* PortfolioService.sample_feasible_portfolios.                            *)
(***************************************************************************)
\* num_samples a caller may pass: 1..MaxSamples
MaxSamples == 2

\* the generator's state advances with every draw; the model keeps it as a
\* position that cycles through RngPeriod values
RngPeriod == 2

\* (mu, Sigma) pairs a caller may pass: two assets
Moments ==
    { [mu |-> <<RInt(1), RInt(2)>>,
       Sigma |-> << <<RInt(2), RInt(1)>>, <<RInt(1), RInt(2)>> >>] }

\* values of max_leverage a caller may pass
Leverages == { <<1, 2>>, <<1, 1>>, <<2, 1>>, <<3, 1>> }

\* components rng.normal may yield, as rationals
NormalValues == { <<-1, 1>>, <<0, 1>>, <<1, 1>>, <<2, 1>> }

\* vectors rng.normal(size=n) may yield
NormalDraws(n) == [1..n -> NormalValues]

\* a + b on floats, each operand evaluated once
Plus(a, b) == CHOOSE r \in { RAdd(x, y) : x \in {a}, y \in {b} } : TRUE

\* w[1] + ... + w[k]
RECURSIVE VSumTo(_, _)
VSumTo(w, k) == IF k = 0 THEN RInt(0) ELSE Plus(VSumTo(w, k - 1), w[k])

\* w.sum()
VSum(w) == VSumTo(w, Len(w))

\* vectors rng.dirichlet(np.ones(n)) may yield: positive components summing to 1
DirichletDraws(n) ==
    { w \in [1..n -> { <<1, 4>>, <<1, 2>>, <<3, 4>> }] : VSum(w) = RInt(1) }

\* no call of consolidate_correlated_assets is in progress
ConsolidatorOff ==
    /\ pc = "off"
    /\ prices = <<>>
    /\ method = "simple"
    /\ threshold = RInt(1)
    /\ consolidation_method = "mean"
    /\ rets = <<>>
    /\ corr = NoCorr
    /\ tickers = <<>>
    /\ visited = {}
    /\ groups = <<>>
    /\ group = <<>>
    /\ i = 1
    /\ j = 1
    /\ consolidated_prices = <<>>
    /\ consolidated_rets = <<>>
    /\ gi = 1
    /\ consolidated_corr = NoCorr
    /\ result_groups = <<>>
    /\ regrouped = <<>>

SamplerInit ==
    /\ ServiceOff
    /\ ConsolidatorOff
    /\ ConcurrentOff
    /\ SolverOff
    /\ SelectorOff
    /\ s_pc = "call"
    /\ \E m \in Moments : mu = m.mu /\ Sigma = m.Sigma
    /\ allow_short \in BOOLEAN
    /\ num_samples \in 1..MaxSamples
    /\ max_leverage \in Leverages
    /\ rng = 0
    /\ records = <<>>
    /\ weights = <<>>
    /\ count = 0

request == <<mu, Sigma, allow_short, num_samples, max_leverage>>

\* |x| on floats
RAbs(x) == <<Abs(x[1]), x[2]>>

\* w[1] * v[1] + ... + w[k] * v[k]
RECURSIVE RDotTo(_, _, _)
RDotTo(w, v, k) ==
    IF k = 0 THEN RInt(0) ELSE Plus(RDotTo(w, v, k - 1), RMul(w[k], v[k]))

\* w @ v
RDot(w, v) == RDotTo(w, v, Len(w))

\* the first k components of S @ w
RECURSIVE MatVecTo(_, _, _)
MatVecTo(S, w, k) ==
    IF k = 0 THEN <<>> ELSE Append(MatVecTo(S, w, k - 1), RDot(S[k], w))

\* np.sqrt(max(var, 0.0)), kept as the number under the root
Risk(var) == [sqrt |-> IF RLess(var, RInt(0)) THEN RInt(0) ELSE var]

\* np.isclose(x, 0): the draws of the model are whole numbers, so a sum within
\* the tolerance 1e-8 of zero is zero
IsCloseZero(x) == x = RInt(0)

\* the first k components of w / s
RECURSIVE DivideTo(_, _, _)
DivideTo(w, s, k) ==
    IF k = 0 THEN <<>> ELSE Append(DivideTo(w, s, k - 1), RDiv(w[k], s))

\* w / w.sum()
Normalized(w) == DivideTo(w, VSum(w), Len(w))

\* |w[1]| + ... + |w[k]|
RECURSIVE L1To(_, _)
L1To(w, k) == IF k = 0 THEN RInt(0) ELSE Plus(L1To(w, k - 1), RAbs(w[k]))

\* np.sum(np.abs(w))
L1(w) == L1To(w, Len(w))

\* a draw of the generator
Advance == rng' = (rng + 1) % RngPeriod

\* ret = ...; var = ...; records.append((np.sqrt(max(var, 0.0)), ret));
\* weights.append(w).  The locals are bound in the order the code assigns them.
AppendRecord(w) ==
    \E ret \in { RDot(w, mu) } :
    \E Sw \in { MatVecTo(Sigma, w, Len(w)) } :
    \E var \in { RDot(w, Sw) } :
        /\ records' = Append(records, <<Risk(var), ret>>)
        /\ weights' = Append(weights, w)

\* n = len(mu); records = []; weights = []; rng = default_rng(42); the branch
Begin ==
    /\ s_pc = "call"
    /\ records' = <<>>
    /\ weights' = <<>>
    /\ rng' = 0
    /\ count' = 0
    /\ s_pc' = IF ~allow_short THEN "for" ELSE "while"
    /\ UNCHANGED <<request, outside_sampler>>

\* one pass of: for _ in range(num_samples)
DrawDirichlet ==
    /\ s_pc = "for"
    /\ Len(weights) < num_samples
    /\ \E w \in DirichletDraws(Len(mu)) : AppendRecord(w)
    /\ Advance
    /\ UNCHANGED <<s_pc, count, request, outside_sampler>>

\* a variant of ReturnNoShort that leaves the loop one pass early
ReturnNoShort_one_pass_early ==
    /\ s_pc = "for"
    /\ Len(weights) >= num_samples - 1
    /\ s_pc' = "done"
    /\ UNCHANGED <<rng, records, weights, count, request, outside_sampler>>

\* the for loop is exhausted: df = ...; return df
ReturnNoShort ==
    /\ s_pc = "for"
    /\ Len(weights) >= num_samples
    /\ s_pc' = "done"
    /\ UNCHANGED <<rng, records, weights, count, request, outside_sampler>>

\* while count < num_samples: ... if np.isclose(w.sum(), 0): continue
RejectZeroSum ==
    /\ s_pc = "while"
    /\ count < num_samples
    /\ \E w \in NormalDraws(Len(mu)) : IsCloseZero(VSum(w))
    /\ Advance
    /\ UNCHANGED <<s_pc, records, weights, count, request, outside_sampler>>

\* while count < num_samples: ... if np.sum(np.abs(w)) > max_leverage: continue
RejectLeverage ==
    /\ s_pc = "while"
    /\ count < num_samples
    /\ \E w0 \in NormalDraws(Len(mu)) :
       \E sum \in { VSum(w0) } :
          /\ ~IsCloseZero(sum)
          /\ \E w \in { DivideTo(w0, sum, Len(w0)) } :
             \E l1 \in { L1(w) } :
                RLess(max_leverage, l1)
    /\ Advance
    /\ UNCHANGED <<s_pc, records, weights, count, request, outside_sampler>>

\* a variant of Accept without the leverage test
Accept_without_leverage_test ==
    /\ s_pc = "while"
    /\ count < num_samples
    /\ \E w0 \in NormalDraws(Len(mu)) :
       \E sum \in { VSum(w0) } :
          /\ ~IsCloseZero(sum)
          /\ \E w \in { DivideTo(w0, sum, Len(w0)) } : AppendRecord(w)
    /\ count' = count + 1
    /\ Advance
    /\ UNCHANGED <<s_pc, request, outside_sampler>>

\* while count < num_samples: ... records.append; weights.append; count += 1
Accept ==
    /\ s_pc = "while"
    /\ count < num_samples
    /\ \E w0 \in NormalDraws(Len(mu)) :
       \E sum \in { VSum(w0) } :
          /\ ~IsCloseZero(sum)
          /\ \E w \in { DivideTo(w0, sum, Len(w0)) } :
             \E l1 \in { L1(w) } :
                /\ ~RLess(max_leverage, l1)
                /\ AppendRecord(w)
    /\ count' = count + 1
    /\ Advance
    /\ UNCHANGED <<s_pc, request, outside_sampler>>

\* the while condition fails: df = ...; return df
ReturnShort ==
    /\ s_pc = "while"
    /\ ~(count < num_samples)
    /\ s_pc' = "done"
    /\ UNCHANGED <<rng, records, weights, count, request, outside_sampler>>

SamplerNext ==
    \/ Begin
    \/ DrawDirichlet
    \/ ReturnNoShort
    \/ RejectZeroSum
    \/ RejectLeverage
    \/ Accept
    \/ ReturnShort

SamplerSpec == SamplerInit /\ [][SamplerNext]_vars

\* The interpreter keeps running the loop (weak fairness of the steps), and
\* the draws are independent: a draw that passes both tests has positive
\* probability whenever one exists, so it occurs with probability one if the
\* loop keeps drawing (strong fairness of Accept).
FairSamplerSpec ==
    /\ SamplerSpec
    /\ WF_vars(SamplerNext)
    /\ SF_vars(Accept)

(***************************************************************************)
(* Two concurrent requests calling sample_feasible_portfolios on the one   *)
(* service object.  A generator built by default_rng(42) yields a fixed    *)
(* sequence; the model lets it be any sequence that repeats after          *)
(* RngPeriod draws.                                                        *)
(***************************************************************************)
Calls == {1, 2}

\* what one position of the generator's sequence yields, as rng.normal(size=n)
\* and as rng.dirichlet(np.ones(n))
StreamValues ==
    { [normal |-> <<RInt(1), RInt(-1)>>, dirichlet |-> << <<1, 2>>, <<1, 2>> >>],
      [normal |-> <<RInt(1), RInt(1)>>,  dirichlet |-> << <<1, 4>>, <<3, 4>> >>],
      [normal |-> <<RInt(2), RInt(-1)>>, dirichlet |-> << <<3, 4>>, <<1, 4>> >>],
      [normal |-> <<RInt(0), RInt(1)>>,  dirichlet |-> << <<1, 2>>, <<1, 2>> >>] }

\* a variant of Generator where the service object keeps one generator
Generator_of_the_service(c) == 1

\* the generator a call draws from: rng is a local of the call
Generator(c) == c

outside_concurrent == <<consolidator, sampler, solver, selector, service>>

ConcurrentInit ==
    /\ ServiceOff
    /\ ConsolidatorOff
    /\ SolverOff
    /\ SelectorOff
    /\ s_pc = "off"
    /\ \E m \in Moments : mu = m.mu /\ Sigma = m.Sigma
    /\ allow_short \in BOOLEAN
    /\ num_samples \in 1..MaxSamples
    /\ max_leverage \in Leverages
    /\ rng = 0
    /\ records = <<>>
    /\ weights = <<>>
    /\ count = 0
    /\ stream \in [1..RngPeriod -> StreamValues]
    /\ gen = [g \in Calls |-> 0]
    /\ calls = [c \in Calls |->
                   [pc |-> "call", records |-> <<>>, weights |-> <<>>, count |-> 0]]

\* the pair appended to records for the weights v
RecordOf(v) == <<Risk(RDot(v, MatVecTo(Sigma, v, Len(v)))), RDot(v, mu)>>

\* what the generator of call c yields next
NextDraw(c) == stream[gen[Generator(c)] + 1]

\* the generator of call c has yielded one more value
Drawn(c) == gen' = [gen EXCEPT ![Generator(c)] = (@ + 1) % RngPeriod]

\* records = []; weights = []; rng = np.random.default_rng(42); the branch
CallBegin(c) ==
    /\ calls[c].pc = "call"
    /\ gen' = [gen EXCEPT ![Generator(c)] = 0]
    /\ calls' = [calls EXCEPT ![c] =
                    [pc |-> IF ~allow_short THEN "for" ELSE "while",
                     records |-> <<>>, weights |-> <<>>, count |-> 0]]
    /\ UNCHANGED <<stream, outside_concurrent>>

\* one pass of: for _ in range(num_samples)
CallDrawDirichlet(c) ==
    /\ calls[c].pc = "for"
    /\ Len(calls[c].weights) < num_samples
    /\ LET v == NextDraw(c).dirichlet
       IN  calls' = [calls EXCEPT ![c].records = Append(@, RecordOf(v)),
                                  ![c].weights = Append(@, v)]
    /\ Drawn(c)
    /\ UNCHANGED <<stream, outside_concurrent>>

\* while count < num_samples: one pass that ends in a continue
CallReject(c) ==
    /\ calls[c].pc = "while"
    /\ calls[c].count < num_samples
    /\ LET v == NextDraw(c).normal
       IN  \/ IsCloseZero(VSum(v))
           \/ RLess(max_leverage, L1(Normalized(v)))
    /\ Drawn(c)
    /\ UNCHANGED <<calls, stream, outside_concurrent>>

\* while count < num_samples: one pass that appends and counts
CallAccept(c) ==
    /\ calls[c].pc = "while"
    /\ calls[c].count < num_samples
    /\ LET v == NextDraw(c).normal
       IN  /\ ~IsCloseZero(VSum(v))
           /\ ~RLess(max_leverage, L1(Normalized(v)))
           /\ calls' = [calls EXCEPT ![c].records = Append(@, RecordOf(Normalized(v))),
                                     ![c].weights = Append(@, Normalized(v)),
                                     ![c].count = @ + 1]
    /\ Drawn(c)
    /\ UNCHANGED <<stream, outside_concurrent>>

\* the loop of the call is over: df = ...; return df
CallReturn(c) ==
    /\ \/ calls[c].pc = "for" /\ Len(calls[c].weights) >= num_samples
       \/ calls[c].pc = "while" /\ ~(calls[c].count < num_samples)
    /\ calls' = [calls EXCEPT ![c].pc = "done"]
    /\ UNCHANGED <<gen, stream, outside_concurrent>>

ConcurrentNext ==
    \E c \in Calls :
        \/ CallBegin(c)
        \/ CallDrawDirichlet(c)
        \/ CallReject(c)
        \/ CallAccept(c)
        \/ CallReturn(c)

ConcurrentSpec == ConcurrentInit /\ [][ConcurrentNext]_vars

(***************************************************************************)
(* PortfolioService.efficient_frontier_analytic.                           *)
(***************************************************************************)
\* longest grid of target returns a caller may pass
MaxTargets == 2

\* (mu, Sigma) pairs a caller may pass (two assets): two regular pairs, two
\* with mu a multiple of the vector of ones, one with an indefinite Sigma,
\* one with a singular Sigma
SolverMoments ==
    { [mu |-> <<RInt(1), RInt(2)>>,
       Sigma |-> << <<RInt(2), RInt(1)>>, <<RInt(1), RInt(2)>> >>],
      [mu |-> <<RInt(0), RInt(1)>>,
       Sigma |-> << <<RInt(1), RInt(0)>>, <<RInt(0), RInt(2)>> >>],
      [mu |-> <<RInt(1), RInt(1)>>,
       Sigma |-> << <<RInt(2), RInt(1)>>, <<RInt(1), RInt(2)>> >>],
      [mu |-> <<RInt(0), RInt(0)>>,
       Sigma |-> << <<RInt(2), RInt(1)>>, <<RInt(1), RInt(2)>> >>],
      [mu |-> <<RInt(1), RInt(2)>>,
       Sigma |-> << <<RInt(1), RInt(2)>>, <<RInt(2), RInt(1)>> >>],
      [mu |-> <<RInt(1), RInt(2)>>,
       Sigma |-> << <<RInt(1), RInt(1)>>, <<RInt(1), RInt(1)>> >>] }

\* target returns a grid may hold
TargetValues == { RInt(0), RInt(1), <<3, 2>>, RInt(3) }

\* return_targets: any array of at most MaxTargets target returns
TargetGrids == UNION { [1..n -> TargetValues] : n \in 0..MaxTargets }

\* The unit roundoff of float arithmetic, on the scale of the model.  The
\* model computes exactly except in D = A * C - B ** 2, where the two
\* rounded products cancel: the difference is off by at most one unit of
\* the products' magnitude.
Ulp == <<1, 1000>>

\* the error of the float value of A * C - B ** 2
RoundingErrors(A, C) ==
    { RMul(e, RAbs(RMul(A, C))) : e \in { RSub(RInt(0), Ulp), RInt(0), Ulp } }

outside_solver == <<consolidator, sampler, concurrent, selector, service>>

SolverInit ==
    /\ ServiceOff
    /\ ConsolidatorOff
    /\ ConcurrentOff
    /\ SelectorOff
    /\ s_pc = "off"
    /\ \E m \in SolverMoments : mu = m.mu /\ Sigma = m.Sigma
    /\ allow_short = FALSE
    /\ num_samples = 0
    /\ max_leverage = RInt(0)
    /\ rng = 0
    /\ records = <<>>
    /\ weights = <<>>
    /\ count = 0
    /\ f_pc = "call"
    /\ return_targets \in TargetGrids
    /\ coeffs = <<>>
    /\ risks = <<>>
    /\ weights_list = <<>>

\* the determinant of a 2 by 2 matrix (the matrices of the model)
Det(S) == RSub(RMul(S[1][1], S[2][2]), RMul(S[1][2], S[2][1]))

\* np.linalg.inv(S) for a 2 by 2 matrix with Det(S) # 0
inv(S) ==
    << <<RDiv(S[2][2], Det(S)), RDiv(RSub(RInt(0), S[1][2]), Det(S))>>,
       <<RDiv(RSub(RInt(0), S[2][1]), Det(S)), RDiv(S[1][1], Det(S))>> >>

\* np.ones(n)
RECURSIVE ones(_)
ones(n) == IF n = 0 THEN <<>> ELSE Append(ones(n - 1), RInt(1))

\* M @ v
MatVec(M, v) == MatVecTo(M, v, Len(v))

\* x * v for a scalar x
RECURSIVE ScaleTo(_, _, _)
ScaleTo(x, v, k) ==
    IF k = 0 THEN <<>> ELSE Append(ScaleTo(x, v, k - 1), RMul(x, v[k]))

\* u + v
RECURSIVE VAddTo(_, _, _)
VAddTo(u, v, k) ==
    IF k = 0 THEN <<>> ELSE Append(VAddTo(u, v, k - 1), RAdd(u[k], v[k]))

\* D <= 0
Degenerate(D) == RLess(D, RInt(0)) \/ D = RInt(0)

\* a variant of Lambda with the sign of B * r_target turned
Lambda_plus(c, r_target) == RDiv(RAdd(c.C, RMul(c.B, r_target)), c.D)

\* lambda_ = (C - B * r_target) / D
Lambda(c, r_target) == RDiv(RSub(c.C, RMul(c.B, r_target)), c.D)

\* gamma = (A * r_target - B) / D
Gamma(c, r_target) == RDiv(RSub(RMul(c.A, r_target), c.B), c.D)

\* w = lambda_ * (inv_Sigma @ ones) + gamma * (inv_Sigma @ mu_vec)
FrontierWeights(c, r_target) ==
    LET n == Len(mu)
        inv_Sigma == inv(Sigma)
    IN  VAddTo(ScaleTo(Lambda(c, r_target), MatVec(inv_Sigma, ones(n)), n),
               ScaleTo(Gamma(c, r_target), MatVec(inv_Sigma, mu), n), n)

\* sigma = float(np.sqrt(max(a + b * (r_target - h) ** 2, 0.0)))
FrontierRisk(c, r_target) ==
    LET d == RSub(r_target, c.h)
    IN  Risk(RAdd(c.a, RMul(c.b, RMul(d, d))))

\* inv_Sigma = np.linalg.inv(Sigma_val) raises LinAlgError: Singular matrix
RaiseSingular ==
    /\ f_pc = "call"
    /\ Det(Sigma) = RInt(0)
    /\ f_pc' = "error"
    /\ UNCHANGED <<return_targets, coeffs, risks, weights_list, outside_solver>>

\* A, B, C, D
ComputeCoefficients ==
    /\ f_pc = "call"
    /\ Det(Sigma) # RInt(0)
    /\ LET n == Len(mu)
           inv_Sigma == inv(Sigma)
           A == RDot(ones(n), MatVec(inv_Sigma, ones(n)))
           B == RDot(ones(n), MatVec(inv_Sigma, mu))
           C == RDot(mu, MatVec(inv_Sigma, mu))
       IN  \E err \in RoundingErrors(A, C) :
              coeffs' = [A |-> A, B |-> B, C |-> C,
                         D |-> RAdd(RSub(RMul(A, C), RMul(B, B)), err)]
    /\ f_pc' = "test"
    /\ UNCHANGED <<return_targets, risks, weights_list, outside_solver>>

\* if D <= 0: raise ValueError
RaiseDegenerate ==
    /\ f_pc = "test"
    /\ Degenerate(coeffs.D)
    /\ f_pc' = "error"
    /\ UNCHANGED <<return_targets, coeffs, risks, weights_list, outside_solver>>

\* a = 1.0 / A; b = A / D; h = B / A; targets, risks, weights_list
EnterLoop ==
    /\ f_pc = "test"
    /\ ~Degenerate(coeffs.D)
    /\ coeffs' = [A |-> coeffs.A, B |-> coeffs.B, C |-> coeffs.C, D |-> coeffs.D,
                  a |-> RDiv(RInt(1), coeffs.A),
                  b |-> RDiv(coeffs.A, coeffs.D),
                  h |-> RDiv(coeffs.B, coeffs.A)]
    /\ risks' = <<>>
    /\ weights_list' = <<>>
    /\ f_pc' = "loop"
    /\ UNCHANGED <<return_targets, outside_solver>>

\* one pass of: for r_target in targets
FrontierPoint ==
    /\ f_pc = "loop"
    /\ Len(risks) < Len(return_targets)
    /\ LET r_target == return_targets[Len(risks) + 1]
       IN  /\ risks' = Append(risks, FrontierRisk(coeffs, r_target))
           /\ weights_list' = Append(weights_list, FrontierWeights(coeffs, r_target))
    /\ UNCHANGED <<f_pc, return_targets, coeffs, outside_solver>>

\* the loop is exhausted: return the dictionary
ReturnFrontier ==
    /\ f_pc = "loop"
    /\ Len(risks) >= Len(return_targets)
    /\ f_pc' = "done"
    /\ UNCHANGED <<return_targets, coeffs, risks, weights_list, outside_solver>>

SolverNext ==
    \/ RaiseSingular
    \/ ComputeCoefficients
    \/ RaiseDegenerate
    \/ EnterLoop
    \/ FrontierPoint
    \/ ReturnFrontier

SolverSpec == SolverInit /\ [][SolverNext]_vars

(***************************************************************************)
(* PortfolioService._select_composition_weights.                           *)
(***************************************************************************)
\* most points of a frontier passed to the selector
MaxPoints == 3

\* mode arguments: absent, the three modes of the selector (one of them in
\* capitals) and the mode get_optimization_figure passes for max_return
Modes == { None, Some("tangency"), Some("TANGENCY"), Some("min_variance"),
           Some("target_return"), Some("max_return") }

\* str.lower() on the mode strings of the model
Lower(m) == IF m = "TANGENCY" THEN "tangency" ELSE m

\* mode = (mode or "tangency").lower()
NormalizedMode == Lower(IF mode = None THEN "tangency" ELSE Value(mode))

\* risk-free rates and target returns a caller may pass
RiskFreeRates == { None, Some(RInt(0)), Some(RInt(1)) }
CompositionTargets == { None, Some(RInt(1)) }

\* returns and (positive) risks of frontier points
PointReturns == { RInt(0), RInt(1), RInt(2) }
PointRisks == { RInt(1), RInt(2) }

\* weight vectors of n frontier points: vectors summing to 1, (2, -1),
\* (1/2, 1/2), (-1, 2), ..., and vectors of any sum, (-1, 0), (-1, 1), ...
RECURSIVE UnitWeights(_)
UnitWeights(n) ==
    IF n = 0 THEN <<>>
    ELSE Append(UnitWeights(n - 1), <<Rat(7 - 3 * n, 2), Rat(3 * n - 5, 2)>>)

RECURSIVE AnyWeights(_)
AnyWeights(n) ==
    IF n = 0 THEN <<>>
    ELSE Append(AnyWeights(n - 1), <<RInt(-1), RInt(n - 1)>>)

\* the frontiers a caller may pass: absent, or n points
Frontiers ==
    {[weights |-> None, targets |-> None, risks |-> None]} \cup
    UNION { { [weights |-> Some(ws), targets |-> Some(t), risks |-> Some(r)] :
                ws \in {UnitWeights(n), AnyWeights(n)},
                t \in [1..n -> PointReturns],
                r \in [1..n -> PointRisks] } : n \in 0..MaxPoints }

\* the sampled feasible sets a caller may pass: absent, empty, or the records
\* of three no-short portfolios
SampledSets ==
    { None, Some(<<>>),
      Some(<< [return |-> RInt(2), risk |-> RInt(2), weights |-> <<RInt(0), RInt(1)>>],
         [return |-> RInt(1), risk |-> RInt(1), weights |-> <<RInt(1), RInt(0)>>],
         [return |-> <<3, 2>>, risk |-> RInt(1),
          weights |-> <<<<1, 2>>, <<1, 2>>>>] >>) }

\* (mu, Sigma) pairs a caller may pass: those of the solver with a positive
\* definite Sigma and two different means
SelectorMoments == { m \in SolverMoments : /\ RLess(RInt(0), m.Sigma[1][1])
                                           /\ RLess(RInt(0), Det(m.Sigma))
                                           /\ m.mu[1] # m.mu[2] }

outside_selector == <<consolidator, concurrent, service>>

SelectorInit ==
    /\ ServiceOff
    /\ ConsolidatorOff
    /\ ConcurrentOff
    /\ SolverOff
    /\ s_pc = "off"
    /\ \E m \in SelectorMoments : mu = m.mu /\ Sigma = m.Sigma
    /\ allow_short \in BOOLEAN
    /\ num_samples = 0
    /\ max_leverage = RInt(0)
    /\ rng = 0
    /\ records = <<>>
    /\ weights = <<>>
    /\ count = 0
    /\ sel_pc = "call"
    /\ mode \in Modes
    /\ r_f \in RiskFreeRates
    /\ composition_target_return \in CompositionTargets
    /\ \E f \in Frontiers :
          ef_weights = f.weights /\ ef_targets = f.targets /\ ef_risks = f.risks
    /\ sampled \in SampledSets
    /\ idx = None
    /\ w_sel = <<>>
    /\ earlier = None

\* what a call of the selector leaves alone
selector_frame ==
    <<mode, r_f, composition_target_return, ef_weights, ef_targets, ef_risks,
      sampled, earlier, sampler, solver, outside_selector>>

\* the index (from 1) of the first greatest entry among the first k of v
RECURSIVE ArgmaxTo(_, _)
ArgmaxTo(v, k) ==
    IF k = 1 THEN 1
    ELSE CHOOSE r \in { IF RLess(v[b], v[k]) THEN k ELSE b :
                           b \in {ArgmaxTo(v, k - 1)} } : TRUE

\* a variant of argmax that yields the last greatest entry
argmax_last(v) ==
    (CHOOSE k \in 1..Len(v) :
        /\ \A q \in 1..Len(v) : ~RLess(v[k], v[q])
        /\ \A q \in (k + 1)..Len(v) : RLess(v[q], v[k])) - 1

\* int(np.argmax(v)): the index (from 0) of the first greatest entry
argmax(v) == ArgmaxTo(v, Len(v)) - 1

\* the index (from 1) of the first least entry among the first k of v
RECURSIVE ArgminTo(_, _)
ArgminTo(v, k) ==
    IF k = 1 THEN 1
    ELSE CHOOSE r \in { IF RLess(v[k], v[b]) THEN k ELSE b :
                           b \in {ArgminTo(v, k - 1)} } : TRUE

\* a variant of argmin that yields the last least entry
argmin_last(v) ==
    (CHOOSE k \in 1..Len(v) :
        /\ \A q \in 1..Len(v) : ~RLess(v[q], v[k])
        /\ \A q \in (k + 1)..Len(v) : RLess(v[k], v[q])) - 1

\* int(np.argmin(v)): the index (from 0) of the first least entry
argmin(v) == ArgminTo(v, Len(v)) - 1

\* (returns - r_f) / risks, the first k entries
RECURSIVE SharpeTo(_, _, _, _)
SharpeTo(returns, rf, rsk, k) ==
    IF k = 0 THEN <<>>
    ELSE Append(SharpeTo(returns, rf, rsk, k - 1),
                RDiv(RSub(returns[k], rf), rsk[k]))

\* sharpe_ratios = (ef_targets - r_f) / ef_risks
sharpe_ratios ==
    SharpeTo(Value(ef_targets), Value(r_f), Value(ef_risks), Len(Value(ef_targets)))

\* a variant of AbsDiffTo without np.abs
RECURSIVE AbsDiffTo_signed(_, _, _)
AbsDiffTo_signed(returns, target, k) ==
    IF k = 0 THEN <<>>
    ELSE Append(AbsDiffTo_signed(returns, target, k - 1), RSub(returns[k], target))

\* np.abs(returns - target), the first k entries
RECURSIVE AbsDiffTo(_, _, _)
AbsDiffTo(returns, target, k) ==
    IF k = 0 THEN <<>>
    ELSE Append(AbsDiffTo(returns, target, k - 1), RAbs(RSub(returns[k], target)))

\* np.maximum(v, 0.0), the first k entries
RECURSIVE MaximumTo(_, _)
MaximumTo(v, k) ==
    IF k = 0 THEN <<>>
    ELSE Append(MaximumTo(v, k - 1), IF RLess(v[k], RInt(0)) THEN RInt(0) ELSE v[k])

\* a variant of Clipped that does not divide by the sum
Clipped_not_renormalized(v) ==
    IF allow_short THEN v ELSE MaximumTo(v, Len(v))

\* if not allow_short: w = np.maximum(w, 0.0); if w.sum() > 0: w = w / w.sum()
Clipped(v) ==
    IF allow_short THEN v
    ELSE LET c == MaximumTo(v, Len(v))
         IN  IF RLess(RInt(0), VSum(c)) THEN Normalized(c) ELSE c

\* a variant of HasFrontier that takes the frontier only when shorts are
\* allowed
HasFrontier_when_short ==
    /\ allow_short
    /\ ef_weights # None
    /\ ef_targets # None
    /\ ef_risks # None
    /\ Len(Value(ef_weights)) > 0

\* ef_weights is not None and ef_targets is not None and ef_risks is not None
\* and len(ef_weights) > 0
HasFrontier ==
    /\ ef_weights # None
    /\ ef_targets # None
    /\ ef_risks # None
    /\ Len(Value(ef_weights)) > 0

\* return w, out of the frontier branch with index k (from 0)
ReturnPoint(k) ==
    /\ w_sel' = Clipped(Value(ef_weights)[k + 1])
    /\ sel_pc' = "done"
    /\ UNCHANGED selector_frame

\* mode == "tangency" and r_f is not None
SelectTangency ==
    /\ sel_pc = "call"
    /\ HasFrontier
    /\ NormalizedMode = "tangency" /\ r_f # None
    /\ idx' = Some(argmax(sharpe_ratios))
    /\ ReturnPoint(Value(idx'))

\* mode == "min_variance"
SelectMinVariance ==
    /\ sel_pc = "call"
    /\ HasFrontier
    /\ ~(NormalizedMode = "tangency" /\ r_f # None)
    /\ NormalizedMode = "min_variance"
    /\ idx' = Some(argmin(Value(ef_risks)))
    /\ ReturnPoint(Value(idx'))

\* mode == "target_return" and composition_target_return is not None
SelectTargetReturn ==
    /\ sel_pc = "call"
    /\ HasFrontier
    /\ ~(NormalizedMode = "tangency" /\ r_f # None)
    /\ NormalizedMode # "min_variance"
    /\ NormalizedMode = "target_return" /\ composition_target_return # None
    /\ idx' = Some(argmin(AbsDiffTo(Value(ef_targets),
                                    Value(composition_target_return),
                                    Len(Value(ef_targets)))))
    /\ ReturnPoint(Value(idx'))

\* a variant of MiddleIndex that takes the lower middle of an even length
MiddleIndex_lower(n) == (n - 1) \div 2

\* len(ef_weights) // 2
MiddleIndex(n) == n \div 2

\* else: w = ef_weights[len(ef_weights) // 2]
SelectMiddle ==
    /\ sel_pc = "call"
    /\ HasFrontier
    /\ ~(NormalizedMode = "tangency" /\ r_f # None)
    /\ NormalizedMode # "min_variance"
    /\ ~(NormalizedMode = "target_return" /\ composition_target_return # None)
    /\ idx' = idx
    /\ ReturnPoint(MiddleIndex(Len(Value(ef_weights))))

\* return w, out of the fallback
ReturnWeights(v) ==
    /\ w_sel' = v
    /\ sel_pc' = "done"
    /\ UNCHANGED selector_frame

\* np.ones(len(mu)) / len(mu)
EqualWeights == DivideTo(ones(Len(mu)), RInt(Len(mu)), Len(mu))

\* mu - r_f * one
RECURSIVE ExcessTo(_, _, _)
ExcessTo(m, rf, k) ==
    IF k = 0 THEN <<>> ELSE Append(ExcessTo(m, rf, k - 1), RSub(m[k], rf))

\* _tangency_weights(mu, Sigma, r_f)
tangency_weights ==
    Normalized(MatVec(inv(Sigma), ExcessTo(mu, Value(r_f), Len(mu))))

\* _min_variance_weights(Sigma)
min_variance_weights == Normalized(MatVec(inv(Sigma), ones(Len(mu))))

\* fallback, allow_short, mode == "tangency" and r_f is not None
FallbackTangency ==
    /\ sel_pc = "call"
    /\ ~HasFrontier
    /\ allow_short
    /\ NormalizedMode = "tangency" /\ r_f # None
    /\ idx' = idx
    /\ ReturnWeights(tangency_weights)

\* fallback, allow_short, mode == "min_variance"
FallbackMinVariance ==
    /\ sel_pc = "call"
    /\ ~HasFrontier
    /\ allow_short
    /\ ~(NormalizedMode = "tangency" /\ r_f # None)
    /\ NormalizedMode = "min_variance"
    /\ idx' = idx
    /\ ReturnWeights(min_variance_weights)

\* fallback, allow_short: equal weight
FallbackEqualWeight ==
    /\ sel_pc = "call"
    /\ ~HasFrontier
    /\ allow_short
    /\ ~(NormalizedMode = "tangency" /\ r_f # None)
    /\ NormalizedMode # "min_variance"
    /\ idx' = idx
    /\ ReturnWeights(EqualWeights)

\* sampled is None or len(sampled) == 0
NoSamples == IF sampled = None THEN TRUE ELSE Len(Value(sampled)) = 0

\* fallback, not allow_short, no samples: equal weight
FallbackNoSamples ==
    /\ sel_pc = "call"
    /\ ~HasFrontier
    /\ ~allow_short
    /\ NoSamples
    /\ idx' = idx
    /\ ReturnWeights(EqualWeights)

\* the column col of the data frame df, the first k rows
RECURSIVE ColumnTo(_, _, _)
ColumnTo(df, col, k) ==
    IF k = 0 THEN <<>> ELSE Append(ColumnTo(df, col, k - 1), df[k][col])

Column(df, col) == ColumnTo(df, col, Len(df))

\* the row labels of df.sort_values("return"): rows of equal return come in
\* either order
SortedLabels(df) ==
    { p \in [1..Len(df) -> 1..Len(df)] :
        /\ \A x, y \in 1..Len(df) : x # y => p[x] # p[y]
        /\ \A x \in 1..(Len(df) - 1) :
              ~RLess(df[p[x + 1]]["return"], df[p[x]]["return"]) }

\* fallback, not allow_short: the row of sampled chosen by the mode
FallbackSampled ==
    /\ sel_pc = "call"
    /\ ~HasFrontier
    /\ ~allow_short
    /\ ~NoSamples
    /\ LET df == Value(sampled)
       IN  \/ /\ NormalizedMode = "tangency" /\ r_f # None
              /\ idx' = Some(argmax(SharpeTo(Column(df, "return"), Value(r_f),
                                              Column(df, "risk"), Len(df))))
           \/ /\ ~(NormalizedMode = "tangency" /\ r_f # None)
              /\ NormalizedMode = "min_variance"
              /\ idx' = Some(argmin(Column(df, "risk")))
           \/ /\ ~(NormalizedMode = "tangency" /\ r_f # None)
              /\ NormalizedMode # "min_variance"
              /\ NormalizedMode = "target_return"
              /\ composition_target_return # None
              /\ idx' = Some(argmin(AbsDiffTo(Column(df, "return"),
                                              Value(composition_target_return),
                                              Len(df))))
           \/ /\ ~(NormalizedMode = "tangency" /\ r_f # None)
              /\ NormalizedMode # "min_variance"
              /\ ~(/\ NormalizedMode = "target_return"
                   /\ composition_target_return # None)
              /\ \E p \in SortedLabels(df) :
                    idx' = Some(p[MiddleIndex(Len(df)) + 1] - 1)
    /\ ReturnWeights(Clipped(Value(sampled)[Value(idx') + 1].weights))

SelectorNext ==
    \/ SelectTangency
    \/ SelectMinVariance
    \/ SelectTargetReturn
    \/ SelectMiddle
    \/ FallbackTangency
    \/ FallbackMinVariance
    \/ FallbackEqualWeight
    \/ FallbackNoSamples
    \/ FallbackSampled

SelectorSpec == SelectorInit /\ [][SelectorNext]_vars

(***************************************************************************)
(* Two calls of _select_composition_weights, one after the other, with the *)
(* same mode, r_f, target, allow_short and frontier.                       *)
(***************************************************************************)
\* a frontier as efficient_frontier_analytic returns it for a grid of
\* np.linspace: absent or with the targets in ascending order and weight
\* vectors that sum to 1
FrontierOfTheSolver ==
    IF ef_weights = None THEN TRUE
    ELSE /\ Value(ef_weights) = UnitWeights(Len(Value(ef_weights)))
         /\ \A k \in 1..(Len(Value(ef_targets)) - 1) :
               ~RLess(Value(ef_targets)[k + 1], Value(ef_targets)[k])

RepeatedInit == SelectorInit /\ FrontierOfTheSolver

\* the call has returned; the caller calls again with another mu, Sigma and
\* sampled, and everything else as before
CallAgain ==
    /\ sel_pc = "done"
    /\ earlier = None
    /\ earlier' = Some(w_sel)
    /\ \E m \in SelectorMoments : mu' = m.mu /\ Sigma' = m.Sigma
    /\ sampled' \in SampledSets
    /\ idx' = None
    /\ w_sel' = <<>>
    /\ sel_pc' = "call"
    /\ UNCHANGED <<mode, r_f, composition_target_return, ef_weights, ef_targets,
                   ef_risks, s_pc, allow_short, num_samples, max_leverage, rng,
                   records, weights, count, solver, outside_selector>>

RepeatedNext == SelectorNext \/ CallAgain

RepeatedSelectorSpec == RepeatedInit /\ [][RepeatedNext]_vars

(***************************************************************************)
(* Moment Estimator: PortfolioService.estimate_mu_sigma, with the loader   *)
(* load_close_prices and the currency conversion of CurrencyService.       *)
(* A file is a name with the Close column it holds (<<>> for a directory   *)
(* and for metadata.json).                                                 *)
(***************************************************************************)
\* largest number of ticker files in the data directory
MaxFiles == 2

Currencies == { "USD", "JPY" }

\* CurrencyService.__init__: analysis_dir, exchange_rate_file, metadata_file
AnalysisDir == "data_analysis/"
RateFile == "USDJPY.csv"
MetadataFile == "data_analysis/metadata.json"

CsvOf(ticker) == ticker \o ".csv"

\* generate_analysis_data: converted_file_path
ConvertedOf(ticker, target) == AnalysisDir \o ticker \o "_" \o target \o ".csv"

\* the Close column of USDJPY.csv: a rate of 2 on every date
ExchangeRates == [t \in 1..NumRows |-> RInt(2)]

\* identify_currency: 'JPY' for a ticker ending in ".T", which no ticker of
\* TickerNames does (they are all alphabetic, too)
identify_currency(ticker) == "USD"

\* convert_currency: the Close of every date times (or over) that date's rate
convert_currency(vals, from, to, rates) ==
    IF from = to THEN vals
    ELSE [t \in 1..Len(vals) |->
             IF from = "USD" /\ to = "JPY" THEN RMul(vals[t], rates[t])
             ELSE IF from = "JPY" /\ to = "USD" THEN RDiv(vals[t], rates[t])
             ELSE vals[t]]

\* the data directories a request may find: n ticker files of r rows each,
\* with or without the analysis directory, the rate file, converted files
TickerFiles(n, r) ==
    { [f \in { CsvOf(TickerNames[k]) : k \in 1..n } |->
          LET k == CHOOSE k \in 1..n : CsvOf(TickerNames[k]) = f
          IN  [t \in 1..r |-> RInt(h[k][t])]] :
      h \in [1..n -> PriceHistories] }

WithConverted(fs, n) ==
    [f \in { ConvertedOf(TickerNames[k], "JPY") : k \in 1..n } |->
        LET k == CHOOSE k \in 1..n : ConvertedOf(TickerNames[k], "JPY") = f
        IN  convert_currency(fs[CsvOf(TickerNames[k])], "USD", "JPY", ExchangeRates)]
    @@ (MetadataFile :> <<>>) @@ fs

DataDirectories ==
    UNION { UNION { { fs,
                      (AnalysisDir :> <<>>) @@ fs,
                      (AnalysisDir :> <<>>) @@ (RateFile :> ExchangeRates) @@ fs,
                      WithConverted((AnalysisDir :> <<>>)
                                    @@ (RateFile :> ExchangeRates) @@ fs, n) } :
                    fs \in TickerFiles(n, r) } :
            n \in 1..MaxFiles, r \in 1..NumRows }

\* the filenames argument: the ticker files of the data directory
filenames ==
    SelectSeq(TickerNames, LAMBDA ticker : CsvOf(ticker) \in DOMAIN files)

outside_estimator ==
    <<pc, corr, tickers, visited, groups, group, i, j, consolidated_prices,
      consolidated_rets, gi, consolidated_corr, result_groups, regrouped,
      s_pc, allow_short, num_samples, max_leverage, rng, records, weights, count,
      concurrent, solver, selector, figure>>

arguments ==
    <<method, threshold, consolidation_method, consolidate_correlated, annualize,
      currency>>

EstimatorInit ==
    /\ ConcurrentOff
    /\ SolverOff
    /\ SelectorOff
    /\ FigureOff
    /\ pc = "off"
    /\ prices = <<>>
    /\ method \in ReturnMethods
    /\ consolidate_correlated \in BOOLEAN
    /\ IF consolidate_correlated
       THEN threshold \in Thresholds /\ consolidation_method \in Aggregations
       ELSE threshold = <<9, 10>> /\ consolidation_method = "mean"
    /\ rets = <<>>
    /\ corr = NoCorr
    /\ tickers = <<>>
    /\ visited = {}
    /\ groups = <<>>
    /\ group = <<>>
    /\ i = 1
    /\ j = 1
    /\ consolidated_prices = <<>>
    /\ consolidated_rets = <<>>
    /\ gi = 1
    /\ consolidated_corr = NoCorr
    /\ result_groups = <<>>
    /\ regrouped = <<>>
    /\ s_pc = "off"
    /\ mu = <<>>
    /\ Sigma = <<>>
    /\ allow_short = FALSE
    /\ num_samples = 0
    /\ max_leverage = RInt(0)
    /\ rng = 0
    /\ records = <<>>
    /\ weights = <<>>
    /\ count = 0
    /\ e_pc = "call"
    /\ annualize \in BOOLEAN
    /\ currency \in Currencies
    /\ files \in DataDirectories

\* consolidate_correlated_assets(filenames, method=..., correlation_threshold=...,
\* consolidation_method=..., currency=currency): that function has no parameter
\* currency, so the call raises TypeError before its body runs
ConsolidateCorrelated ==
    /\ e_pc = "call"
    /\ consolidate_correlated
    /\ e_pc' = "error"
    /\ UNCHANGED <<arguments, files, prices, rets, mu, Sigma, outside_estimator>>

\* CurrencyService(): os.makedirs(self.analysis_dir, exist_ok=True)
MakeDirs(fs) == IF AnalysisDir \in DOMAIN fs THEN fs ELSE (AnalysisDir :> <<>>) @@ fs

\* generate_analysis_data([original_file], target_currency); download is
\* whether download_exchange_rate gets the rates when USDJPY.csv is missing
generate_analysis_data(fs, ticker, target, download) ==
    LET rated == IF RateFile \in DOMAIN fs \/ ~download THEN fs
                 ELSE (RateFile :> ExchangeRates) @@ fs
    IN  IF RateFile \notin DOMAIN rated \/ CsvOf(ticker) \notin DOMAIN rated
        THEN rated
        ELSE IF identify_currency(ticker) = target
        THEN (MetadataFile :> <<>>) @@ rated
        ELSE (ConvertedOf(ticker, target) :>
                 convert_currency(rated[CsvOf(ticker)], identify_currency(ticker),
                                  target, rated[RateFile]))
             @@ (MetadataFile :> <<>>) @@ rated

\* get_analysis_file_path: the file to read
AnalysisFile(ticker, target) ==
    IF identify_currency(ticker) = target THEN CsvOf(ticker)
    ELSE ConvertedOf(ticker, target)

\* get_analysis_file_path: the directories after the call
get_analysis_file_path(fs, ticker, target, download) ==
    IF AnalysisFile(ticker, target) \in DOMAIN fs THEN fs
    ELSE generate_analysis_data(fs, ticker, target, download)

\* the loop of load_close_prices over the files: a file that cannot be read
\* is skipped (except Exception ... continue)
RECURSIVE LoadFrom(_, _, _, _, _)
LoadFrom(fs, names, target, download, series_list) ==
    IF names = <<>> THEN [files |-> fs, series_list |-> series_list]
    ELSE LET ticker == Head(names)
             after  == get_analysis_file_path(MakeDirs(fs), ticker, target, download)
             path   == AnalysisFile(ticker, target)
         IN  LoadFrom(after, Tail(names), target, download,
                      IF path \in DOMAIN after
                      THEN Append(series_list, [name |-> ticker, vals |-> after[path]])
                      ELSE series_list)

\* load_close_prices raises ValueError: no file could be read
RaiseNoValidCsv ==
    /\ e_pc = "call"
    /\ ~consolidate_correlated
    /\ \E download \in BOOLEAN :
          LET loaded == LoadFrom(files, filenames, currency, download, <<>>)
          IN  /\ loaded.series_list = <<>>
              /\ files' = loaded.files
    /\ e_pc' = "error"
    /\ UNCHANGED <<arguments, prices, rets, mu, Sigma, outside_estimator>>

\* prices = self.load_close_prices(filenames, currency=currency)
LoadClosePrices ==
    /\ e_pc = "call"
    /\ ~consolidate_correlated
    /\ \E download \in BOOLEAN :
          LET loaded == LoadFrom(files, filenames, currency, download, <<>>)
          IN  /\ loaded.series_list # <<>>
              /\ files' = loaded.files
              /\ prices' = loaded.series_list
    /\ e_pc' = "loaded"
    /\ UNCHANGED <<arguments, rets, mu, Sigma, outside_estimator>>

\* the rows of df kept by dropna(how="any"): those with no NaN
RowsWithoutNaN(df) ==
    { t \in 1..NRows(df) : \A k \in 1..Len(df) : ~IsNaN(df[k].vals[t].q) }

\* the returns of estimate_mu_sigma, after rets.dropna(how="any")
EstimatorReturns(df, how) ==
    LET raw == [k \in 1..Len(df) |->
                  [name |-> df[k].name,
                   vals |-> IF how = "log" THEN LogChange(df[k].vals)
                                           ELSE PctChange(df[k].vals)]]
        keep == RowsWithoutNaN(raw)
    IN  [k \in 1..Len(raw) |->
            [name |-> raw[k].name, vals |-> KeepRows(raw[k].vals, keep, 1)]]

\* Series.mean(): NaN for no values (log returns in units of ln 2)
Mean(qs) == RDiv(RSum(qs), RInt(Len(qs)))

\* DataFrame.cov() entry: the sample covariance, NaN for fewer than two rows
Cov(xs, ys) ==
    LET products == [t \in 1..Len(xs) |->
                        RMul(RSub(xs[t], Mean(xs)), RSub(ys[t], Mean(ys)))]
    IN  IF Len(xs) < 2 THEN NaN ELSE RDiv(RSum(products), RInt(Len(xs) - 1))

periods_per_year == 252

\* the scaling by periods_per_year when annualize is set
Annualized(q) == IF annualize THEN RMul(q, RInt(periods_per_year)) ELSE q

\* rets, rets.mean(), rets.cov(), the annualization, and the return of mu, Sigma
EstimateMoments ==
    /\ e_pc = "loaded"
    /\ LET r == EstimatorReturns(prices, method)
       IN  /\ rets' = r
           /\ mu' = [k \in 1..Len(r) |-> Annualized(Mean(NumSeq(r[k].vals)))]
           /\ Sigma' = [a \in 1..Len(r) |-> [b \in 1..Len(r) |->
                           Annualized(Cov(NumSeq(r[a].vals), NumSeq(r[b].vals)))]]
    /\ e_pc' = "done"
    /\ UNCHANGED <<arguments, files, prices, outside_estimator>>

EstimatorNext ==
    \/ ConsolidateCorrelated
    \/ RaiseNoValidCsv
    \/ LoadClosePrices
    \/ EstimateMoments

EstimatorSpec == EstimatorInit /\ [][EstimatorNext]_vars

(***************************************************************************)
(* The figure requests: PortfolioService.get_optimization_figure,          *)
(* get_efficient_frontier_figure and get_feasible_set_figure, which hand   *)
(* the moments, the frontier of the solver and the sampled set to          *)
(* _select_composition_weights through create_feasible_set_figure.         *)
(***************************************************************************)
\* values of optimization_method a caller may pass
OptimizationMethods == { "sharpe", "min_variance", "max_return", "target_return" }

\* values of target_return a caller may pass
TargetReturns == { None, Some(RInt(0)), Some(RInt(2)) }

Endpoints == { "optimization", "efficient_frontier", "feasible_set" }

FigureInit ==
    /\ ConsolidatorOff
    /\ ConcurrentOff
    /\ SolverOff
    /\ EstimatorOff
    /\ s_pc = "off"
    /\ \E m \in SelectorMoments : mu = m.mu /\ Sigma = m.Sigma
    /\ allow_short \in BOOLEAN
    /\ num_samples = 0
    /\ max_leverage = RInt(0)
    /\ rng = 0
    /\ records = <<>>
    /\ weights = <<>>
    /\ count = 0
    /\ sel_pc = "request"
    /\ endpoint \in Endpoints
    /\ IF endpoint = "feasible_set"
       THEN optimization_method = "sharpe" /\ target_return = None
       ELSE optimization_method \in OptimizationMethods /\ target_return \in TargetReturns
    /\ mode = None
    /\ r_f \in RiskFreeRates \ {None}
    /\ composition_target_return = None
    /\ \E f \in Frontiers :
          ef_weights = f.weights /\ ef_targets = f.targets /\ ef_risks = f.risks
    /\ ef_weights # None
    /\ FrontierOfTheSolver
    /\ sampled \in SampledSets \ {None}
    /\ idx = None
    /\ w_sel = <<>>
    /\ earlier = None

\* what the figure requests pass on unchanged to create_feasible_set_figure
passed_on ==
    <<r_f, ef_weights, ef_targets, ef_risks, sampled, idx, w_sel, earlier,
      sampler, solver, outside_selector>>

\* the composition mode get_optimization_figure derives from optimization_method
CompositionMode(m) ==
    IF m = "sharpe" THEN "tangency"
    ELSE IF m = "min_variance" THEN "min_variance"
    ELSE IF m = "max_return" THEN "max_return"
    ELSE "tangency"

\* get_optimization_figure, up to the call of _select_composition_weights
GetOptimizationFigure ==
    /\ sel_pc = "request"
    /\ endpoint = "optimization"
    /\ mode' = Some(CompositionMode(optimization_method))
    /\ composition_target_return' = None
    /\ sel_pc' = "call"
    /\ UNCHANGED passed_on

\* get_efficient_frontier_figure, up to the call of _select_composition_weights
GetEfficientFrontierFigure ==
    /\ sel_pc = "request"
    /\ endpoint = "efficient_frontier"
    /\ mode' = Some("efficient_frontier")
    /\ composition_target_return' = None
    /\ sel_pc' = "call"
    /\ UNCHANGED passed_on

\* get_feasible_set_figure, up to the call of _select_composition_weights:
\* composition_mode and composition_target_return are its caller's
GetFeasibleSetFigure ==
    /\ sel_pc = "request"
    /\ endpoint = "feasible_set"
    /\ mode' \in Modes \ {None}
    /\ composition_target_return' \in CompositionTargets
    /\ sel_pc' = "call"
    /\ UNCHANGED passed_on

FigureNext ==
    \/ GetOptimizationFigure
    \/ GetEfficientFrontierFigure
    \/ GetFeasibleSetFigure
    \/ SelectorNext

FigureSpec == FigureInit /\ [][FigureNext]_vars

(***************************************************************************)
(* Vocabulary of the properties.                                           *)
(***************************************************************************)
\* the first grouping has returned
Grouped == pc \in {"replace", "error", "done", "outer2", "inner2", "done2"}

\* the groups the first grouping returned
FirstGroups == IF pc \in {"replace", "error"} THEN groups ELSE result_groups

\* consolidate_correlated_assets has returned its dictionary
Consolidated == pc \in {"done", "outer2", "inner2", "done2"}

\* the grouping is running (first or second call)
InFind == pc \in {"outer", "inner", "outer2", "inner2"}

\* every list of members that exists in the current state
GroupsInProgress ==
    IF pc \in {"inner", "inner2"} THEN Append(groups, group) ELSE groups

\* the members of a list of groups
Members(gs) == { gs[g][m] : <<g, m>> \in { x \in (1..Len(gs)) \X (1..NumAssets + 1) :
                                             x[2] <= Len(gs[x[1]]) } }

\* no asset identifier occurs twice in the list of groups gs
Disjoint(gs) ==
    \A g1, g2 \in 1..Len(gs) :
        \A m1 \in 1..Len(gs[g1]), m2 \in 1..Len(gs[g2]) :
            gs[g1][m1] = gs[g2][m2] => (g1 = g2 /\ m1 = m2)

\* |c| >= t for a correlation c that is a number
AbsAtLeast(c, t) ==
    /\ ~c.nan
    /\ \/ t[1] <= 0
       \/ c.sq[1] * t[2] * t[2] >= t[1] * t[1] * c.sq[2]

\* |c| < t for a correlation c that is a number
AbsBelow(c, t) ==
    /\ ~c.nan
    /\ t[1] > 0
    /\ c.sq[1] * t[2] * t[2] < t[1] * t[1] * c.sq[2]

\* c < t for a correlation c that is a number (the sign counts)
Below(c, t) ==
    /\ ~c.nan
    /\ t[1] > 0
    /\ (c.sgn < 0 \/ c.sq[1] * t[2] * t[2] < t[1] * t[1] * c.sq[2])

\* the matrix has no undefined entry between its columns
NoNaN(c) ==
    \A a \in 1..Len(c.cols), b \in 1..Len(c.cols) : ~c.val[c.cols[a], c.cols[b]].nan

Symmetric(c) ==
    \A a \in 1..Len(c.cols), b \in 1..Len(c.cols) :
        c.val[c.cols[a], c.cols[b]] = c.val[c.cols[b], c.cols[a]]

(***************************************************************************)
(* The reference greedy procedure of the specification.                    *)
(***************************************************************************)
\* scan the columns k.. in order, adding each unassigned asset whose absolute
\* correlation with every member of grp is >= thr; yields <<grp, assigned>>
RECURSIVE RefScan(_, _, _, _, _)
RefScan(c, thr, grp, assigned, k) ==
    IF k > Len(c.cols) THEN <<grp, assigned>>
    ELSE IF /\ c.cols[k] \notin assigned
            /\ \A m \in 1..Len(grp) : AbsAtLeast(c.val[grp[m], c.cols[k]], thr)
         THEN RefScan(c, thr, Append(grp, c.cols[k]), assigned \cup {c.cols[k]}, k + 1)
         ELSE RefScan(c, thr, grp, assigned, k + 1)

\* visit the columns k.. in order; groups of size 1 are discarded
RECURSIVE RefVisit(_, _, _, _)
RefVisit(c, thr, assigned, k) ==
    IF k > Len(c.cols) THEN <<>>
    ELSE IF c.cols[k] \in assigned THEN RefVisit(c, thr, assigned, k + 1)
    ELSE LET scan == RefScan(c, thr, <<c.cols[k]>>, assigned \cup {c.cols[k]}, k + 1)
         IN  (IF Len(scan[1]) > 1 THEN <<scan[1]>> ELSE <<>>)
                 \o RefVisit(c, thr, scan[2], k + 1)

RefGroups(c, thr) == RefVisit(c, thr, {}, 1)

(***************************************************************************)
(* C1.  _find_correlated_groups returns exactly the groups of the          *)
(* reference greedy procedure (join iff the absolute correlation with      *)
(* every member so far is >= threshold; groups of size 1 discarded; groups *)
(* in order of their first member), for every correlation matrix.          *)
(* Refuted by a matrix with an undefined entry: see C4.                    *)
(***************************************************************************)
C1_GroupsAreReferenceGroups ==
    /\ Grouped => FirstGroups = RefGroups(corr, threshold)
    /\ pc = "done2" => regrouped = RefGroups(consolidated_corr, threshold)

(***************************************************************************)
(* C2.  At every step of the grouping, and in its result, no asset         *)
(* identifier occurs in more than one group (nor twice in one group), and  *)
(* every member of a group is marked visited, so it is not examined again. *)
(***************************************************************************)
C2_GroupsDisjoint ==
    /\ InFind => /\ Disjoint(GroupsInProgress)
                 /\ Members(GroupsInProgress) \subseteq visited
    /\ Grouped => Disjoint(FirstGroups)
    /\ pc = "done2" => Disjoint(regrouped)

C2_Witness ==
    /\ pc = "done"
    /\ Len(result_groups) = 2

(***************************************************************************)
(* C3.  For a symmetric correlation matrix without undefined entries, any  *)
(* two distinct members of one returned group have absolute correlation    *)
(* >= threshold.                                                           *)
(***************************************************************************)
MutuallyCorrelated(gs, c, thr) ==
    \A g \in 1..Len(gs) :
        \A m1, m2 \in 1..Len(gs[g]) :
            m1 # m2 => AbsAtLeast(c.val[gs[g][m1], gs[g][m2]], thr)

C3_GroupMembersMutuallyCorrelated ==
    /\ (Grouped /\ Symmetric(corr) /\ NoNaN(corr))
           => MutuallyCorrelated(FirstGroups, corr, threshold)
    /\ (pc = "done2" /\ Symmetric(consolidated_corr) /\ NoNaN(consolidated_corr))
           => MutuallyCorrelated(regrouped, consolidated_corr, threshold)

C3_Witness ==
    /\ pc = "done"
    /\ NoNaN(corr)
    /\ \E g \in 1..Len(result_groups) :
           /\ Len(result_groups[g]) >= 3
           /\ \E m \in 2..Len(result_groups[g]) :
                  corr.val[result_groups[g][1], result_groups[g][m]].sq # <<1, 1>>

(***************************************************************************)
(* C4.  An asset joins the group being built only if its absolute          *)
(* correlation with every current member is >= threshold; an undefined     *)
(* (NaN) correlation does not satisfy this, so such an asset is not        *)
(* joined.  Refuted: abs(NaN) < threshold is false, so the asset joins.    *)
(***************************************************************************)
C4_JoinOnlyIfCorrelatedWithEveryMember ==
    [][(pc \in {"inner", "inner2"} /\ pc' = pc /\ Len(group') > Len(group))
          => \A m \in 1..Len(group) :
                 AbsAtLeast(corr_arg.val[group[m], group'[Len(group')]], threshold)]_vars

(***************************************************************************)
(* C5.  The consolidated price and return matrices have the same columns:  *)
(* the original columns in original order without the non-first members of *)
(* the groups, N minus the sum of (group size - 1) of them, and the first  *)
(* member's column of the price matrix holds the group's representative.   *)
(***************************************************************************)
NonFirstMembers(gs) == Members([g \in 1..Len(gs) |-> Tail(gs[g])])

ExpectedColumns ==
    SelectSeq(Columns(prices), LAMBDA c : c \notin NonFirstMembers(result_groups))

RECURSIVE DroppedCount(_)
DroppedCount(gs) ==
    IF gs = <<>> THEN 0 ELSE (Len(Head(gs)) - 1) + DroppedCount(Tail(gs))

C5_ConsolidatedColumns ==
    Consolidated =>
        /\ Columns(consolidated_prices) = ExpectedColumns
        /\ Columns(consolidated_rets) = ExpectedColumns
        /\ Len(consolidated_prices) = Len(prices) - DroppedCount(result_groups)
        /\ Len(consolidated_rets) = Len(prices) - DroppedCount(result_groups)
        /\ \A g \in 1..Len(result_groups) :
               ColVals(consolidated_prices, result_groups[g][1]) =
                   create_representative_asset(prices, result_groups[g],
                                               consolidation_method).vals

C5_Witness ==
    /\ pc = "done"
    /\ consolidation_method = "mean"
    /\ \E g \in 1..Len(result_groups) :
           /\ result_groups[g][1] # prices[1].name
           /\ ColVals(consolidated_prices, result_groups[g][1])
                  # ColVals(prices, result_groups[g][1])

(***************************************************************************)
(* C6.  The consolidated returns are the returns of the consolidated       *)
(* prices, column by column.  Refuted: the column standing for a group     *)
(* keeps the returns of the group's first member.                          *)
(***************************************************************************)
C6_ReturnsDerivedFromConsolidatedPrices ==
    Consolidated =>
        \A k \in 1..Len(consolidated_rets) :
            consolidated_rets[k] = compute_returns(consolidated_prices, method)[k]

(***************************************************************************)
(* C7.  In the consolidated prices, returns and correlation the column     *)
(* that replaces a group is keyed by the group's composite name.  Refuted: *)
(* it stays keyed by the first member's ticker.                            *)
(***************************************************************************)
C7_GroupColumnKeyedByCompositeName ==
    Consolidated =>
        \A g \in 1..Len(result_groups) :
            /\ RepresentativeName(result_groups[g]) \in ColumnSet(consolidated_prices)
            /\ RepresentativeName(result_groups[g]) \in ColumnSet(consolidated_rets)
            /\ \E k \in 1..Len(consolidated_corr.cols) :
                   consolidated_corr.cols[k] = RepresentativeName(result_groups[g])

(***************************************************************************)
(* C8.  Idempotence as the specification words it: grouping the            *)
(* consolidated correlation again with the same threshold yields no        *)
(* groups.  Refuted: the greedy rule is not transitive, so the column that *)
(* stands for a group may be correlated with an asset the group rejected.  *)
(***************************************************************************)
C8_RegroupingYieldsNoGroups ==
    pc = "done2" => regrouped = <<>>

\* the members of grp that the first grouping left outside every group
Ungrouped(grp) ==
    { m \in 1..Len(grp) : grp[m] \notin Members(result_groups) }

(***************************************************************************)
(* C8, amended.  The second grouping never puts two assets into one group  *)
(* that the first grouping both left ungrouped: every group it finds       *)
(* contains a column standing for a group of the first run (so it finds    *)
(* none when the first run found none).                                    *)
(***************************************************************************)
C8_RegroupingNeedsARepresentative ==
    pc = "done2" =>
        /\ \A g \in 1..Len(regrouped) : Cardinality(Ungrouped(regrouped[g])) <= 1
        /\ result_groups = <<>> => regrouped = <<>>

C8_Witness ==
    /\ pc = "done2"
    /\ NoNaN(corr)
    /\ consolidation_method = "first"
    /\ \E g \in 1..Len(regrouped) : Cardinality(Ungrouped(regrouped[g])) = 1

\* every pair of distinct assets satisfies P(correlation, threshold)
EveryPair(P(_, _)) ==
    \A a, b \in 1..Len(corr.cols) :
        a # b => P(corr.val[corr.cols[a], corr.cols[b]], threshold)

C10_ShortSamplingTerminates ==
    (s_pc = "while") ~> (s_pc = "done" /\ count = num_samples)

\* the loop returns whenever some draw can pass the leverage test
SomeDrawPasses ==
    \E w \in NormalDraws(Len(mu)) :
        /\ ~IsCloseZero(VSum(w))
        /\ ~RLess(max_leverage, L1(Normalized(w)))

C10_TerminatesIfSomeDrawPasses ==
    (s_pc = "while" /\ SomeDrawPasses) ~> (s_pc = "done" /\ count = num_samples)

\* the loop is running with a max_leverage below 1
C10_Witness ==
    /\ s_pc = "while"
    /\ RLess(max_leverage, RInt(1))
    /\ ~SomeDrawPasses

\* the weight vector w sums to 1 and its L1 norm is at most max_leverage
Feasible(w) ==
    /\ VSum(w) = RInt(1)
    /\ ~RLess(max_leverage, L1(w))

(***************************************************************************)
(* C11.  In short-allowed mode every stored weight vector sums to 1 and    *)
(* has an L1 norm <= max_leverage, records, weights and count stay in      *)
(* step, and a draw either is accepted (one record and one weight vector   *)
(* more, count one higher) or is rejected and changes none of the three.   *)
(***************************************************************************)
C11_StoredWeightsWereAccepted ==
    /\ []((allow_short /\ s_pc \in {"while", "done"}) =>
             /\ Len(records) = count
             /\ Len(weights) = count
             /\ \A k \in 1..Len(weights) : Feasible(weights[k]))
    /\ [][(s_pc = "while" /\ rng' # rng) =>
             \/ /\ count' = count
                /\ records' = records
                /\ weights' = weights
             \/ /\ count' = count + 1
                /\ Len(records') = Len(records) + 1
                /\ Len(weights') = Len(weights) + 1
                /\ SubSeq(records', 1, Len(records)) = records
                /\ SubSeq(weights', 1, Len(weights)) = weights]_vars

\* a short-allowed call has returned two portfolios after an odd number of
\* draws (so some draw was rejected), one of them with a short position
C11_Witness ==
    /\ allow_short
    /\ s_pc = "done"
    /\ count = 2
    /\ rng = 1
    /\ \E k \in 1..Len(weights) : \E a \in 1..Len(weights[k]) : weights[k][a][1] < 0

(***************************************************************************)
(* C12.  In no-short mode every draw is stored (none is rejected), every   *)
(* stored weight vector has components >= 0 summing to 1, and the call     *)
(* returns exactly num_samples portfolios.                                 *)
(***************************************************************************)
C12_NoShortKeepsEveryDraw ==
    (~allow_short /\ s_pc \in {"for", "done"}) =>
        /\ Len(records) = Len(weights)
        /\ rng = Len(weights) % RngPeriod
        /\ count = 0
        /\ \A k \in 1..Len(weights) :
               /\ VSum(weights[k]) = RInt(1)
               /\ \A a \in 1..Len(weights[k]) : ~RLess(weights[k][a], RInt(0))
        /\ s_pc = "done" => Len(weights) = num_samples

C12_Witness ==
    /\ ~allow_short
    /\ s_pc = "done"
    /\ num_samples = 2
    /\ Len(weights) = 2
    /\ weights[1] # weights[2]

\* the step changes the locals of call c or the generator call c draws from
Touches(c) ==
    \/ calls'[c] # calls[c]
    \/ gen'[Generator(c)] # gen[Generator(c)]

\* the portfolios of call c so far are the first portfolios of call d
PrefixOf(c, d) ==
    /\ Len(calls[c].weights) <= Len(calls[d].weights)
    /\ calls[c].weights = SubSeq(calls[d].weights, 1, Len(calls[c].weights))
    /\ calls[c].records = SubSeq(calls[d].records, 1, Len(calls[c].records))

(***************************************************************************)
(* C13.  Two calls with identical inputs, interleaved on the shared        *)
(* service object, return identical feasible sets (at every moment the     *)
(* portfolios of one are the first portfolios of the other), and no step   *)
(* of one call changes the locals of the other call or the generator the   *)
(* other call draws from.                                                  *)
(***************************************************************************)
C13_ConcurrentCallsAgree ==
    /\ [](\A c, d \in Calls :
             /\ PrefixOf(c, d) \/ PrefixOf(d, c)
             /\ (calls[c].pc = "done" /\ calls[d].pc = "done") =>
                    /\ calls[c].records = calls[d].records
                    /\ calls[c].weights = calls[d].weights)
    /\ [][\A c, d \in Calls : c # d => ~(Touches(c) /\ Touches(d))]_vars

\* both calls have returned, each with the same two different portfolios
C13_Witness ==
    /\ \A c \in Calls : calls[c].pc = "done" /\ Len(calls[c].weights) = 2
    /\ calls[1].weights[1] # calls[1].weights[2]

\* mu is a scalar multiple of the vector of ones
ParallelToOnes(m) == \A p \in 1..Len(m) : m[p] = m[1]

\* A*C - B^2 of the stored coefficients, without rounding
ExactD(c) == RSub(RMul(c.A, c.C), RMul(c.B, c.B))

\* the call has passed the test of D: it builds or has returned a frontier
PastTheTest == f_pc \in {"loop", "done"}

\* the returned frontier has one point per target, in the grid's order
OnePointPerTarget ==
    /\ Len(risks) = Len(return_targets)
    /\ Len(weights_list) = Len(return_targets)
    /\ \A k \in 1..Len(return_targets) :
          /\ risks[k] = FrontierRisk(coeffs, return_targets[k])
          /\ weights_list[k] = FrontierWeights(coeffs, return_targets[k])

\* C14: the solver fails with an error and returns no risks and no weights
\* whenever D = A*C - B^2 <= 0, in particular when mu is a scalar multiple
\* of the vector of ones; when D > 0 it returns one frontier point per
\* target return, in the order of the grid.
C14_DegenerateFrontierFails ==
    /\ PastTheTest => RLess(RInt(0), ExactD(coeffs))
    /\ PastTheTest => ~ParallelToOnes(mu)
    /\ f_pc = "error" => risks = <<>> /\ weights_list = <<>>
    /\ f_pc = "error" /\ coeffs # <<>> => ~RLess(RInt(0), ExactD(coeffs))
    /\ f_pc = "done" => OnePointPerTarget

\* C14, as the code has it: the test is made on the float value of D, so
\* the call fails exactly when that value is <= 0 (or Sigma is singular),
\* and a returned frontier has one point per target in the grid's order.
C14_FrontierFollowsComputedD ==
    /\ PastTheTest => ~Degenerate(coeffs.D)
    /\ f_pc = "error" => risks = <<>> /\ weights_list = <<>>
    /\ f_pc = "error" /\ coeffs # <<>> => Degenerate(coeffs.D)
    /\ f_pc = "error" /\ coeffs = <<>> => Det(Sigma) = RInt(0)
    /\ f_pc = "done" => OnePointPerTarget

\* a frontier is returned for a mean vector that is a multiple of ones
C14_FrontierOfParallelMean ==
    /\ f_pc = "done"
    /\ ParallelToOnes(mu)
    /\ ExactD(coeffs) = RInt(0)
    /\ Len(weights_list) = MaxTargets

\* C15: for every target return of the grid the weight vector
\* lambda * inv(Sigma) 1 + gamma * inv(Sigma) mu of the solver sums to 1 in
\* exact arithmetic (D computed without rounding error), with no
\* renormalization.
C15_FrontierWeightsSumToOne ==
    PastTheTest /\ coeffs.D = ExactD(coeffs) =>
        \A k \in 1..Len(weights_list) : VSum(weights_list[k]) = RInt(1)

\* a frontier of two different portfolios, one of them short in an asset,
\* was returned from an exact D
C15_Witness ==
    /\ f_pc = "done"
    /\ coeffs.D = ExactD(coeffs)
    /\ Len(weights_list) = MaxTargets
    /\ weights_list[1] # weights_list[2]
    /\ \E k \in 1..Len(weights_list) : \E a \in 1..Len(mu) :
          RLess(weights_list[k][a], RInt(0))

\* the call has returned a weight vector chosen from a non-empty frontier
FromFrontier == sel_pc = "done" /\ HasFrontier

\* the frontier point of idx (counted from 1), and the number of points
Chosen == Value(idx) + 1
Points == Len(Value(ef_weights))

\* the Sharpe ratio (r - riskFreeRate) / sigma(r) of frontier point k
Sharpe(k) == RDiv(RSub(Value(ef_targets)[k], Value(r_f)), Value(ef_risks)[k])

\* the distance |r - target| of frontier point k
Distance(k) == RAbs(RSub(Value(ef_targets)[k], Value(composition_target_return)))

\* the mode is none of tangency, min_variance, target_return
Unrecognized == NormalizedMode \notin {"tangency", "min_variance", "target_return"}

\* C16: with a non-empty frontier and mode tangency (and a risk-free rate)
\* the selector chooses the first frontier point of maximal Sharpe ratio and
\* returns its weight vector, clipped if shorts are not allowed.
C16_TangencyMaximizesSharpe ==
    FromFrontier /\ NormalizedMode = "tangency" /\ r_f # None =>
        /\ idx # None
        /\ Chosen \in 1..Points
        /\ \A q \in 1..Points : ~RLess(Sharpe(Chosen), Sharpe(q))
        /\ \A q \in 1..(Chosen - 1) : RLess(Sharpe(q), Sharpe(Chosen))
        /\ w_sel = Clipped(Value(ef_weights)[Chosen])

\* the second of three points was returned, its Sharpe ratio equal to that
\* of the third, with the mode written in capitals
C16_Witness ==
    /\ FromFrontier
    /\ mode = Some("TANGENCY")
    /\ r_f # None
    /\ Points = 3
    /\ idx = Some(1)
    /\ Sharpe(2) = Sharpe(3)
    /\ allow_short

\* C17: with a non-empty frontier and mode min_variance the selector
\* chooses the first frontier point of least risk, whatever the risk-free
\* rate and the target return.
C17_MinVarianceMinimizesRisk ==
    FromFrontier /\ NormalizedMode = "min_variance" =>
        /\ idx # None
        /\ Chosen \in 1..Points
        /\ \A q \in 1..Points :
              ~RLess(Value(ef_risks)[q], Value(ef_risks)[Chosen])
        /\ \A q \in 1..(Chosen - 1) :
              RLess(Value(ef_risks)[Chosen], Value(ef_risks)[q])
        /\ w_sel = Clipped(Value(ef_weights)[Chosen])

\* the second of three points was returned, its risk equal to that of the
\* third, with a risk-free rate and a target return supplied, and a point
\* of greater Sharpe ratio and one nearer to the target passed over
C17_Witness ==
    /\ FromFrontier
    /\ mode = Some("min_variance")
    /\ r_f # None
    /\ composition_target_return # None
    /\ Points = 3
    /\ idx = Some(1)
    /\ Value(ef_risks)[2] = Value(ef_risks)[3]
    /\ RLess(Sharpe(2), Sharpe(3))
    /\ RLess(Distance(1), Distance(2))

\* C18: with a non-empty frontier, mode target_return and a target supplied
\* the selector chooses the first frontier point whose return is nearest to
\* the target.
C18_TargetReturnIsNearest ==
    FromFrontier /\ NormalizedMode = "target_return"
                 /\ composition_target_return # None =>
        /\ idx # None
        /\ Chosen \in 1..Points
        /\ \A q \in 1..Points : ~RLess(Distance(q), Distance(Chosen))
        /\ \A q \in 1..(Chosen - 1) : RLess(Distance(Chosen), Distance(q))
        /\ w_sel = Clipped(Value(ef_weights)[Chosen])

\* the first of three points was returned, as near to the target as the
\* third, one below the target and one above
C18_Witness ==
    /\ FromFrontier
    /\ mode = Some("target_return")
    /\ composition_target_return # None
    /\ Points = 3
    /\ idx = Some(0)
    /\ Distance(1) = Distance(3)
    /\ Value(ef_targets)[1] # Value(ef_targets)[3]
    /\ Value(ef_targets)[2] # Value(ef_targets)[1]

\* C19: with a non-empty frontier of L points and a mode that is none of
\* tangency, min_variance, target_return the selector raises no error: every
\* step of such a call is its return, and it returns the weight vector of
\* the point of index floor(L/2) (counted from 0), clipped if shorts are not
\* allowed.
C19_UnrecognizedModeTakesTheMiddle ==
    /\ [](FromFrontier /\ Unrecognized =>
            /\ idx = None
            /\ w_sel = Clipped(Value(ef_weights)[(Points \div 2) + 1]))
    /\ [][sel_pc = "call" /\ HasFrontier /\ Unrecognized =>
            /\ sel_pc' = "done"
            /\ w_sel' = Clipped(Value(ef_weights)[(Points \div 2) + 1])]_vars

\* mode max_return returned the second of two points, clipped
C19_Witness ==
    /\ FromFrontier
    /\ mode = Some("max_return")
    /\ Points = 2
    /\ ~allow_short
    /\ w_sel = Clipped(Value(ef_weights)[2])
    /\ w_sel # Value(ef_weights)[2]
    /\ w_sel # Clipped(Value(ef_weights)[1])

\* C20: an invalid mode string is reported to the caller as an error: the
\* call returns no weight vector.
C20_InvalidModeIsAnError ==
    Unrecognized => sel_pc # "done" /\ w_sel = <<>>

\* every weight vector of the frontier sums to 1
UnitFrontier ==
    \A k \in 1..Points : VSum(Value(ef_weights)[k]) = RInt(1)

\* v with its negative components set to zero, divided by its sum
ClippedAndRenormalized(v) ==
    LET c == [k \in 1..Len(v) |-> IF RLess(v[k], RInt(0)) THEN RInt(0) ELSE v[k]]
    IN  [k \in 1..Len(v) |-> RDiv(c[k], VSum(c))]

\* C21: when allow_short is false and every vector of the non-empty
\* frontier sums to 1, the returned vector, for every mode, has no negative
\* component and sums to 1: it is a frontier vector with its negative
\* components set to zero, divided by its sum.
C21_NoShortWeightsAreAPortfolio ==
    FromFrontier /\ ~allow_short /\ UnitFrontier =>
        /\ \A a \in 1..Len(w_sel) : ~RLess(w_sel[a], RInt(0))
        /\ VSum(w_sel) = RInt(1)
        /\ \E k \in 1..Points :
              w_sel = ClippedAndRenormalized(Value(ef_weights)[k])

\* the third of three frontier vectors, short in the first asset, was
\* returned with that component set to zero and the rest divided by the sum
C21_Witness ==
    /\ FromFrontier
    /\ ~allow_short
    /\ UnitFrontier
    /\ Points = 3
    /\ idx = Some(2)
    /\ RLess(Value(ef_weights)[3][1], RInt(0))
    /\ w_sel[1] = RInt(0)
    /\ w_sel[2] = RInt(1)
    /\ w_sel[2] # Value(ef_weights)[3][2]

\* a frontier with at least one point was passed
FrontierSupplied ==
    IF ef_weights = None \/ ef_targets = None \/ ef_risks = None THEN FALSE
    ELSE Len(Value(ef_weights)) > 0

\* the vectors a call may return from the frontier passed
FrontierChoices == { Clipped(Value(ef_weights)[k]) : k \in 1..Points }

\* C22: whenever a non-empty frontier is supplied, with shorts allowed or
\* not, two calls that agree on mode, r_f, target, allow_short and the
\* frontier return the same vector whatever mu, Sigma and sampled are, and
\* every call returns a vector of the frontier (the fallback is not taken).
C22_FrontierPathIgnoresMoments ==
    /\ [](sel_pc = "done" /\ earlier # None /\ FrontierSupplied =>
            w_sel = Value(earlier))
    /\ [][sel_pc = "call" /\ FrontierSupplied =>
            sel_pc' = "done" /\ w_sel' \in FrontierChoices]_vars

\* a second call returned the third frontier vector, shorts not allowed and
\* a sampled set passed (the fallback would choose among the samples)
C22_Witness ==
    /\ sel_pc = "done"
    /\ earlier # None
    /\ FrontierSupplied
    /\ ~allow_short
    /\ Points = 3
    /\ sampled # None
    /\ mu[1] = RInt(0)
    /\ idx = Some(2)

\* C23: when neither a frontier nor a feasible set is available (frontier
\* absent or empty, sampled absent or empty) the selector fails with an
\* error and returns no weight vector.
C23_NothingToSelectFromIsAnError ==
    ~FrontierSupplied /\ NoSamples => sel_pc # "done" /\ w_sel = <<>>

\* C24: consolidate_correlated_assets called with an aggregation that is
\* not one of mean, median, first fails with an error for every price input,
\* the inputs in which no group is found included: it never returns.
C24_UnknownAggregationIsAnError ==
    consolidation_method \notin KnownAggregations =>
        pc \notin {"done", "outer2", "done2"}

\* C24, as the code has it: an unknown aggregation fails if and only if a
\* group was found; with no group the call returns.
C24_UnknownAggregationFailsWithAGroup ==
    consolidation_method \notin KnownAggregations =>
        /\ pc \in {"done", "outer2", "done2"} => result_groups = <<>>
        /\ pc = "error" => groups # <<>>

\* the rows of returns left after rets.dropna(how="any")
UsableRows == NRows(rets)

\* estimate_mu_sigma has returned mu, Sigma
Estimated == e_pc = "done"

\* C25: the Moment Estimator fails with an error whenever the return matrix
\* has zero usable rows after dropping the rows with a missing value (a price
\* matrix with a single row); it never returns mu, Sigma computed from zero rows.
C25_ZeroUsableRowsIsAnError == Estimated => UsableRows > 0

\* C25, as the code has it: from zero usable rows the estimator returns a
\* mean vector and a covariance matrix of NaN.
C25_ZeroUsableRowsGiveNaN ==
    Estimated /\ UsableRows = 0 =>
        \A a \in 1..Len(mu) :
            IsNaN(mu[a]) /\ \A b \in 1..Len(mu) : IsNaN(Sigma[a][b])

\* C26: when correlation consolidation is requested with a valid threshold
\* and a known aggregation, estimate_mu_sigma completes: the call does not
\* end in an error.
C26_ConsolidatedEstimateCompletes ==
    consolidate_correlated /\ consolidation_method \in KnownAggregations =>
        e_pc # "error"

\* C26, as the code has it: a call that requests consolidation never returns.
C26_ConsolidatedEstimateNeverReturns == consolidate_correlated => ~Estimated

\* C27: a request is a stateless invocation: no step of a call of
\* estimate_mu_sigma changes the files under the data directories, for every
\* currency argument.
C27_RequestsLeaveTheFilesAlone == [][files' = files]_vars

\* C27, as the code has it: a request in the currency of its tickers changes
\* nothing but the analysis directory it creates when that is missing.
C27_SameCurrencyWritesNoFile ==
    [][currency = "USD" => files' \in { files, MakeDirs(files) }]_vars

\* a figure request has reached the selector
Passed == sel_pc \in {"call", "done"}

\* the request came through get_optimization_figure or get_efficient_frontier_figure
WithTargetReturn == endpoint \in {"optimization", "efficient_frontier"}

\* C28: the target_return a caller of get_optimization_figure (or of
\* get_efficient_frontier_figure) supplies reaches the Composition Selector
\* as its target.
C28_TargetReturnReachesTheSelector ==
    Passed /\ WithTargetReturn => composition_target_return = target_return

\* C28, as the code has it: the selector of such a request has no target,
\* and never runs under the target-return objective.
C28_SelectorGetsNoTarget ==
    Passed /\ WithTargetReturn =>
        /\ composition_target_return = None
        /\ NormalizedMode # "target_return"

\* the frontier points whose clipped weight vector the request returned
Returned == { k \in 1..Points : w_sel = Clipped(Value(ef_weights)[k]) }

\* get_optimization_figure has selected from a non-empty frontier
Optimized == endpoint = "optimization" /\ sel_pc = "done" /\ FrontierSupplied

\* C29: get_optimization_figure makes the selector choose by the documented
\* objective: sharpe gives a frontier point of maximal Sharpe ratio,
\* min_variance one of least risk, max_return one of highest return.
C29_MethodsSelectByTheirObjective ==
    Optimized =>
        /\ optimization_method = "sharpe" =>
              \E k \in Returned : \A q \in 1..Points : ~RLess(Sharpe(k), Sharpe(q))
        /\ optimization_method = "min_variance" =>
              \E k \in Returned :
                  \A q \in 1..Points : ~RLess(Value(ef_risks)[q], Value(ef_risks)[k])
        /\ optimization_method = "max_return" =>
              \E k \in Returned :
                  \A q \in 1..Points :
                      ~RLess(Value(ef_targets)[k], Value(ef_targets)[q])

\* C29, as the code has it: sharpe and min_variance select by their
\* objective, max_return returns the middle point of the frontier.
C29_MaxReturnTakesTheMiddle ==
    Optimized =>
        /\ optimization_method = "sharpe" =>
              \E k \in Returned : \A q \in 1..Points : ~RLess(Sharpe(k), Sharpe(q))
        /\ optimization_method = "min_variance" =>
              \E k \in Returned :
                  \A q \in 1..Points : ~RLess(Value(ef_risks)[q], Value(ef_risks)[k])
        /\ optimization_method = "max_return" => (Points \div 2) + 1 \in Returned

\* the assets of the matrix c that the groups gs leave out
LeftOut(gs, c) == { c.cols[k] : k \in 1..Len(c.cols) } \ Members(gs)

\* no asset left out could have joined a group of gs as it was returned
Maximal(gs, c, thr) ==
    \A x \in LeftOut(gs, c) :
        \A g \in 1..Len(gs) :
            \E m \in 1..Len(gs[g]) : ~AbsAtLeast(c.val[gs[g][m], x], thr)

\* C30: maximality of the greedy grouping: for a symmetric correlation
\* matrix without undefined entries and every threshold, after
\* _find_correlated_groups returns, no asset left outside all groups has
\* absolute correlation >= threshold with every member of some returned group.
C30_GreedyGroupingIsMaximal ==
    /\ (Grouped /\ Symmetric(corr) /\ NoNaN(corr))
           => Maximal(FirstGroups, corr, threshold)
    /\ (pc = "done2" /\ Symmetric(consolidated_corr) /\ NoNaN(consolidated_corr))
           => Maximal(regrouped, consolidated_corr, threshold)

\* an asset was left out that reaches the threshold with one member of a
\* returned group of two, and not with the other
C30_Witness ==
    /\ pc = "done"
    /\ NoNaN(corr)
    /\ \E g \in 1..Len(result_groups) :
           /\ Len(result_groups[g]) = 2
           /\ \E x \in LeftOut(result_groups, corr) :
                  /\ AbsAtLeast(corr.val[result_groups[g][1], x], threshold)
                  /\ ~AbsAtLeast(corr.val[result_groups[g][2], x], threshold)
====
